---------------------------- MODULE Spec2Model ----------------------------
(***************************************************************************)
(* A model of the WhatsApp -> Home Assistant bridge: the registry snapshot *)
(* (haContext.js), the alias table, tokenizer, scorer, candidate search,   *)
(* entity selector and command detectors (resolver.js, constants.js), the  *)
(* per-user memory (memory.js) and the request handler (server.js).        *)
(*                                                                         *)
(* Texts are TLA+ strings handled character by character, as the           *)
(* JavaScript does.  Scores are fixed-point integers: one unit of score is *)
(* ScoreScale, one unit of IDF weight is IdfScale.                         *)
(***************************************************************************)
EXTENDS Integers, Sequences, FiniteSets, TLC

VARIABLES
    haContext,        \* haContext.js: the registry snapshot object
    contextReady,     \* haContext.js: contextReadyResolved
    cacheFile,        \* the document at CONTEXT_CACHE_PATH
    blacklistFile,    \* the document at BLACKLIST_PATH
    tasks,            \* haContext.js: cache loads and refreshes in flight
    aliasCache,       \* resolver.js: aliasCache (NoCache = null)
    aliasLastLoaded,  \* resolver.js: aliasLastLoaded
    aliasFile,        \* the document at ALIASES_PATH
    now,              \* Date.now()
    userRuntimeState, \* memory.js: user -> lastEntityId
    conversationMemory, \* memory.js: user -> the history of the conversation
    call,             \* the last resolver / loader call and what it returned
    req               \* server.js: the processTextCommand request in progress

vars == <<haContext, contextReady, cacheFile, blacklistFile, tasks,
          aliasCache, aliasLastLoaded, aliasFile, now, userRuntimeState,
          conversationMemory, call, req>>

-----------------------------------------------------------------------------
(* JavaScript values and strings *)

\* null / undefined
Null == "<null>"

\* The value a throwing call yields in the model.
Thrown == "<thrown>"

Ch(s, i) == SubSeq(s, i, i)

UpperChars == "ABCDEFGHIJKLMNOPQRSTUVWXYZ"
LowerChars == "abcdefghijklmnopqrstuvwxyz"
DigitChars == "0123456789"

IndexIn(alphabet, c) ==
    IF \E i \in 1..Len(alphabet) : Ch(alphabet, i) = c
    THEN CHOOSE i \in 1..Len(alphabet) : Ch(alphabet, i) = c
    ELSE 0

IsSpace(c) == c = " " \/ c = "\t"

\* The characters of an alphabet, and the place of each one in it.
CharsOf(alphabet) == {Ch(alphabet, i) : i \in 1..Len(alphabet)}
PlaceIn(alphabet) == [c \in CharsOf(alphabet) |-> IndexIn(alphabet, c)]

DigitSet == CharsOf(DigitChars)
LowerAlnumSet == CharsOf(LowerChars) \cup DigitSet
UpperSet == CharsOf(UpperChars)
UpperPlace == PlaceIn(UpperChars)
DigitPlace == PlaceIn(DigitChars)

IsDigit(c) == c \in DigitSet
IsLowerAlnum(c) == c \in LowerAlnumSet

LowerCh(c) == IF c \in UpperSet THEN Ch(LowerChars, UpperPlace[c]) ELSE c

\* String.prototype.toLowerCase
RECURSIVE ToLowerCase(_)
ToLowerCase(s) ==
    IF s = "" THEN "" ELSE LowerCh(Head(s)) \o ToLowerCase(Tail(s))

\* Number of leading / trailing white-space characters of s from position p.
RECURSIVE SpaceRun(_, _)
SpaceRun(s, p) ==
    IF p <= Len(s) /\ IsSpace(Ch(s, p)) THEN 1 + SpaceRun(s, p + 1) ELSE 0

RECURSIVE SpaceRunBack(_, _)
SpaceRunBack(s, p) ==
    IF p >= 1 /\ IsSpace(Ch(s, p)) THEN 1 + SpaceRunBack(s, p - 1) ELSE 0

\* String.prototype.trim
Trim(s) ==
    LET a == SpaceRun(s, 1)
    IN  IF a = Len(s) THEN ""
        ELSE SubSeq(s, a + 1, Len(s) - SpaceRunBack(s, Len(s)))

\* s has t at position p
HasAt(s, t, p) == p >= 1 /\ p + Len(t) - 1 <= Len(s) /\ SubSeq(s, p, p + Len(t) - 1) = t

\* String.prototype.startsWith / includes
StartsWith(s, t) == HasAt(s, t, 1)
Includes(s, t) == \E p \in 1..(Len(s) - Len(t) + 1) : HasAt(s, t, p)

\* String.prototype.replace(/_/g, " ")
RECURSIVE ReplaceUnderscores(_)
ReplaceUnderscores(s) ==
    IF s = "" THEN ""
    ELSE (IF Head(s) = "_" THEN " " ELSE Head(s)) \o ReplaceUnderscores(Tail(s))

\* Array.prototype.join
RECURSIVE Join(_, _)
Join(seq, sep) ==
    IF seq = <<>> THEN ""
    ELSE IF Len(seq) = 1 THEN seq[1]
    ELSE seq[1] \o sep \o Join(Tail(seq), sep)

SeqContains(seq, x) == \E i \in 1..Len(seq) : seq[i] = x

Take(seq, n) == SubSeq(seq, 1, IF n < Len(seq) THEN n ELSE Len(seq))

-----------------------------------------------------------------------------
(* constants.js *)

SHORT_TOKEN_WHITELIST == {"ac", "tv", "ir", "fan", "led", "pir"}

STOP_WORDS ==
    {"the", "and", "for", "are", "but", "not", "you", "all", "can", "her",
     "was", "one", "our", "out", "has", "get", "set", "its", "how", "did",
     "let", "say", "she", "too", "use", "way", "who", "may", "any", "new",
     "now", "old", "see", "also", "back", "been", "call", "come", "each",
     "find", "from", "give", "have", "here", "just", "know", "like", "look",
     "make", "many", "more", "most", "much", "must", "name", "only", "over",
     "show", "some", "take", "tell", "than", "that", "them", "then", "they",
     "this", "time", "turn", "very", "want", "well", "went", "what", "when",
     "will", "with", "would", "about", "after", "could", "every", "first",
     "found", "great", "where", "which", "their", "there", "these", "thing",
     "think", "those", "being", "other", "should", "please", "switch"}

\* text.split(/[^a-z0-9]+/): the maximal runs of [a-z0-9], with the empty
\* strings split() yields at the ends left out (the filter drops them).
RECURSIVE AlnumRuns(_, _)
AlnumRuns(s, cur) ==
    IF s = "" THEN (IF cur = "" THEN <<>> ELSE <<cur>>)
    ELSE IF IsLowerAlnum(Head(s)) THEN AlnumRuns(Tail(s), cur \o Head(s))
    ELSE (IF cur = "" THEN <<>> ELSE <<cur>>) \o AlnumRuns(Tail(s), "")

\* A filter that lets every non-empty token pass.
KeepTokenOfAnyLength(token) == token # ""

KeepToken(token) == token # "" /\ (Len(token) >= 3 \/ token \in SHORT_TOKEN_WHITELIST)

tokenizeForMatch(text) == SelectSeq(AlnumRuns(ToLowerCase(text), ""), KeepToken)

-----------------------------------------------------------------------------
(* haContext.js: entities and indexes *)

\* A JavaScript number held where the code expects a string, e.g. the
\* attribute area: 42 of a Home Assistant state.  Strings that start with
\* "<" stand for values that are not strings.
IsNumber(v) == StartsWith(v, "<number:")
Truthy(v) == v # Null /\ v # ""
\* String(v), as Array.prototype.join applies it
ToText(v) == IF IsNumber(v) THEN SubSeq(v, 9, Len(v) - 1) ELSE v
\* v.toLowerCase() is a TypeError unless v is a string
LowerThrows(v) == IsNumber(v)

\* entity_id.split(".")[0] and entity_id.split(".").slice(1).join(".")
DotAt(id) == IF Includes(id, ".") THEN CHOOSE p \in 1..Len(id) :
                 Ch(id, p) = "." /\ \A q \in 1..(p - 1) : Ch(id, q) # "."
             ELSE Len(id) + 1
DomainOf(id) == SubSeq(id, 1, DotAt(id) - 1)
IdSuffix(id) == SubSeq(id, DotAt(id) + 1, Len(id))

BRIGHTNESS_COLOR_MODES ==
    {"brightness", "hs", "xy", "rgb", "rgbw", "rgbww", "white", "color_temp"}

\* mapEntityFromState throws a TypeError for an item without entity_id
MapThrows(item) == item.entity_id = Null

mapEntityFromState(item) ==
    LET domain == DomainOf(item.entity_id)
        attributes == item.attributes
        supportsBrightness ==
            domain = "light" /\
            (\/ attributes.brightness # Null
             \/ attributes.brightness_pct # Null
             \/ \E i \in 1..Len(attributes.supported_color_modes) :
                   ToLowerCase(attributes.supported_color_modes[i])
                       \in BRIGHTNESS_COLOR_MODES
             \/ attributes.supported_features % 2 = 1)
        parts == SelectSeq(<<attributes.friendly_name, item.entity_id,
                             attributes.area, attributes.room, domain>>, Truthy)
        normalized ==
            ToLowerCase(Join([i \in 1..Len(parts) |-> ToText(parts[i])], " "))
    IN  [entity_id |-> item.entity_id,
         domain |-> domain,
         name |-> IF Truthy(attributes.friendly_name)
                  THEN attributes.friendly_name ELSE item.entity_id,
         area |-> IF Truthy(attributes.area) THEN attributes.area
                  ELSE IF Truthy(attributes.room) THEN attributes.room
                  ELSE Null,
         state |-> item.state,
         attributes |-> attributes,
         supportsBrightness |-> supportsBrightness,
         normalized |-> normalized]

\* The lean projection refreshHaContext stores in searchIndex.
SearchEntry(entity) ==
    [entity_id |-> entity.entity_id,
     domain |-> entity.domain,
     name |-> entity.name,
     area |-> entity.area,
     state |-> entity.state,
     normalized |-> entity.normalized,
     supportsBrightness |-> entity.supportsBrightness]

IdsOf(seq) == {seq[i].entity_id : i \in 1..Len(seq)}

InDomain(entity, domain) == entity.domain = domain

groupEntities(entities) ==
    LET domains == {entities[i].domain : i \in 1..Len(entities)}
    IN  [d \in domains |->
            SelectSeq(entities, LAMBDA e : InDomain(e, d))]

\* round(1000 * Math.log2(n / c)) for 1 <= c <= n <= 8
Log2Table ==
    << <<   0,    0,    0,    0,    0,    0,    0,    0>>,
       <<1000,    0,    0,    0,    0,    0,    0,    0>>,
       <<1585,  585,    0,    0,    0,    0,    0,    0>>,
       <<2000, 1000,  415,    0,    0,    0,    0,    0>>,
       <<2322, 1322,  737,  322,    0,    0,    0,    0>>,
       <<2585, 1585, 1000,  585,  263,    0,    0,    0>>,
       <<2807, 1807, 1222,  807,  485,  222,    0,    0>>,
       <<3000, 2000, 1415, 1000,  678,  415,  193,    0>> >>

\* round(1000 * Math.log2(n / c)): 0 when every entity has the token
Log2Of(n, c) == IF c = n THEN 0 ELSE Log2Table[n][c]

\* One unit of IDF weight.
IdfScale == 1000
IdfMin == 500
IdfMax == 10000

Max2(a, b) == IF a > b THEN a ELSE b
Min2(a, b) == IF a < b THEN a ELSE b

TokenSet(text) == LET t == tokenizeForMatch(text) IN {t[i] : i \in 1..Len(t)}

NormalizedOrEmpty(entity) == IF Truthy(entity.normalized) THEN entity.normalized ELSE ""

buildTokenIdf(searchIndex) ==
    LET totalEntities == IF Len(searchIndex) = 0 THEN 1 ELSE Len(searchIndex)
        \* tokenSets[i]: new Set(tokenizeForMatch(entity.normalized || ""))
        Weigh(tokenSets) ==
            [token \in UNION {tokenSets[i] : i \in 1..Len(searchIndex)} |->
                Max2(IdfMin,
                     Min2(Log2Of(totalEntities,
                                 Cardinality({i \in 1..Len(searchIndex) :
                                                 token \in tokenSets[i]})),
                          IdfMax))]
    IN  Weigh([i \in 1..Len(searchIndex) |-> TokenSet(NormalizedOrEmpty(searchIndex[i]))])

\* The area key of rebuildIndexes: (entity.area || "").toLowerCase().trim()
AreaKey(entity) == IF Truthy(entity.area) THEN Trim(ToLowerCase(entity.area)) ELSE ""

\* rebuildIndexes throws at the first entity whose area is not a string.
IndexThrows(entities) == \E i \in 1..Len(entities) :
    Truthy(entities[i].area) /\ LowerThrows(entities[i].area)

entityMapOf(entities) ==
    [id \in IdsOf(entities) |->
        LET last == CHOOSE i \in 1..Len(entities) :
                /\ entities[i].entity_id = id
                /\ \A j \in (i + 1)..Len(entities) : entities[j].entity_id # id
        IN  entities[last]]

areaIndexOf(entities) ==
    LET keys == {AreaKey(entities[i]) : i \in 1..Len(entities)} \ {""}
    IN  [a \in keys |-> SelectSeq(entities, LAMBDA e : AreaKey(e) = a)]

\* rebuildIndexes(entities, searchIndex) applied to the context ctx.  The
\* three assignments are made in order; a TypeError in the area loop leaves
\* entityMap assigned and areaIndex and tokenIdf as they were.
rebuildIndexes(ctx, entities, searchIndex) ==
    LET Mapped(withMap) ==
            IF IndexThrows(entities) THEN withMap
            ELSE [withMap EXCEPT !.areaIndex = areaIndexOf(entities),
                                 !.tokenIdf = buildTokenIdf(searchIndex)]
    IN  Mapped([ctx EXCEPT !.entityMap = entityMapOf(entities)])

\* getEntityById(entityId): haContext.entityMap.get(entityId) || null
getEntityById(ctx, entityId) ==
    IF entityId \in DOMAIN ctx.entityMap THEN ctx.entityMap[entityId] ELSE Null

-----------------------------------------------------------------------------
(* resolver.js: alias table *)

ALIAS_RELOAD_MS == 60000

\* aliasCache = null
NoCache == [loaded |-> FALSE, table |-> <<>>]

NormalizeKey(text) == Trim(ToLowerCase(text))

\* new Map(Object.entries(parsed).map(([k, v]) => [k.toLowerCase().trim(), v])):
\* a later entry with the same normalized key replaces an earlier one.
AliasMapOf(entries) ==
    LET keys == {NormalizeKey(entries[i][1]) : i \in 1..Len(entries)}
    IN  [k \in keys |->
            LET last == CHOOSE i \in 1..Len(entries) :
                    /\ NormalizeKey(entries[i][1]) = k
                    /\ \A j \in (i + 1)..Len(entries) : NormalizeKey(entries[j][1]) # k
            IN  entries[last][2]]

\* A cache that never expires once loaded.
AliasFreshForever(cache, lastLoaded, t) == cache.loaded

\* loadAliases() at time t: does it serve the cache without reading the file?
AliasFresh(cache, lastLoaded, t) == cache.loaded /\ t - lastLoaded < ALIAS_RELOAD_MS

\* A load whose failure empties the table.
loadAliasesForgetful(cache, lastLoaded, file, t) ==
    IF cache.loaded /\ t - lastLoaded < ALIAS_RELOAD_MS
    THEN [cache |-> cache, lastLoaded |-> lastLoaded, read |-> FALSE]
    ELSE IF file.ok
    THEN [cache |-> [loaded |-> TRUE, table |-> AliasMapOf(file.entries)],
          lastLoaded |-> t, read |-> TRUE]
    ELSE [cache |-> [loaded |-> TRUE, table |-> <<>>],
          lastLoaded |-> lastLoaded, read |-> TRUE]

\* loadAliases() at time t: aliasCache and aliasLastLoaded when it returns.
\* file.ok is FALSE when readFileSync or JSON.parse throws.
loadAliases(cache, lastLoaded, file, t) ==
    IF AliasFresh(cache, lastLoaded, t)
    THEN [cache |-> cache, lastLoaded |-> lastLoaded, read |-> FALSE]
    ELSE IF file.ok
    THEN [cache |-> [loaded |-> TRUE, table |-> AliasMapOf(file.entries)],
          lastLoaded |-> t, read |-> TRUE]
    ELSE [cache |-> IF cache.loaded THEN cache
                    ELSE [loaded |-> TRUE, table |-> <<>>],
          lastLoaded |-> lastLoaded, read |-> TRUE]

\* resolveAlias(text) over the table loadAliases returned:
\* aliases.get(normalized) || null
resolveAlias(aliases, text) ==
    LET Get(normalized) ==
            IF normalized = "" THEN Null
            ELSE IF normalized \in DOMAIN aliases /\ Truthy(aliases[normalized])
            THEN aliases[normalized]
            ELSE Null
    IN  Get(NormalizeKey(text))

-----------------------------------------------------------------------------
(* resolver.js: scoring and candidate search *)

\* One unit of score.  Scores are multiples of 1/ScoreScale, which holds
\* 5 * matched / total exactly for names of up to 6 tokens.
ScoreScale == 6000

IdfOf(tokenIdf, token) == IF token \in DOMAIN tokenIdf THEN tokenIdf[token] ELSE IdfScale

\* queryJoined.replace(/\s+/g, " "): tokens hold no white space, so the
\* joined query has single spaces already.
scoreEntity(entity, tokens, preferredDomains, tokenIdf) ==
    LET perIdf == ScoreScale \div IdfScale
        Score(friendlyName, entityIdSuffix, queryJoined, nameTokens, idTokens, areaTokens) ==
            LET \* the loop over the query tokens: acc = <<score,
                \* consecutiveNameMatches, maxConsecutive, nameMatchCount>>
                RECURSIVE Loop(_, _)
                Loop(i, acc) ==
                    IF i > Len(tokens) THEN acc
                    ELSE LET Step(idf, inName, inId, inArea) ==
                                 IF inName
                                 THEN Loop(i + 1,
                                           <<acc[1] + (IF inArea THEN 5 * idf * perIdf ELSE 0)
                                                    + 3 * idf * perIdf,
                                             acc[2] + 1, Max2(acc[3], acc[2] + 1), acc[4] + 1>>)
                                 ELSE Loop(i + 1,
                                           <<acc[1] + (IF inArea THEN 5 * idf * perIdf ELSE 0)
                                                    + (IF inId THEN idf * perIdf ELSE 0),
                                             0, acc[3], acc[4]>>)
                         IN  Step(IdfOf(tokenIdf, tokens[i]),
                                  SeqContains(nameTokens, tokens[i]),
                                  SeqContains(idTokens, tokens[i]),
                                  SeqContains(areaTokens, tokens[i]))
                Total(done) ==
                    done[1]
                    + (IF done[3] >= 2 THEN done[3] * 2 * ScoreScale ELSE 0)
                    + (IF entity.domain \in preferredDomains THEN 2 * ScoreScale ELSE 0)
                    + (IF Len(nameTokens) > 0 /\ done[4] > 0
                       THEN (done[4] * 5 * ScoreScale) \div Len(nameTokens) ELSE 0)
            IN  Total(Loop(1, <<(IF friendlyName = queryJoined THEN 100 * ScoreScale ELSE 0)
                                + (IF entityIdSuffix = queryJoined THEN 80 * ScoreScale ELSE 0),
                                0, 0, 0>>))
    IN  Score(ToLowerCase(IF Truthy(entity.name) THEN entity.name ELSE ""),
              ReplaceUnderscores(IdSuffix(entity.entity_id)),
              Join(tokens, " "),
              tokenizeForMatch(IF Truthy(entity.name) THEN entity.name ELSE ""),
              tokenizeForMatch(entity.entity_id),
              tokenizeForMatch(IF Truthy(entity.area) THEN entity.area ELSE ""))

\* a.name.localeCompare(b.name) < 0: letters compare without case first,
\* white space and punctuation sort before digits, digits before letters; at
\* equal letters the lower-case one comes first.
CollationChars == " \t_-.,0123456789abcdefghijklmnopqrstuvwxyz"
CollationSet == CharsOf(CollationChars)
CollationPlace == PlaceIn(CollationChars)
Rank(c) == IF LowerCh(c) \in CollationSet THEN CollationPlace[LowerCh(c)] ELSE 0

RECURSIVE PrimaryLess(_, _)
PrimaryLess(a, b) ==
    IF b = "" THEN FALSE
    ELSE IF a = "" THEN TRUE
    ELSE IF Rank(Head(a)) # Rank(Head(b)) THEN Rank(Head(a)) < Rank(Head(b))
    ELSE PrimaryLess(Tail(a), Tail(b))

RECURSIVE CaseLess(_, _)
CaseLess(a, b) ==
    IF a = "" \/ b = "" THEN FALSE
    ELSE IF Head(a) # Head(b) THEN LowerCh(Head(a)) = Head(a)
    ELSE CaseLess(Tail(a), Tail(b))

LocaleLess(a, b) ==
    \/ PrimaryLess(a, b)
    \/ ~PrimaryLess(b, a) /\ CaseLess(a, b)

\* A comparator that forgets the name.
RankedBeforeByScoreOnly(a, b) == a.score > b.score

\* The comparator of the candidate sort: b.score - a.score || localeCompare
RankedBefore(a, b) ==
    \/ a.score > b.score
    \/ a.score = b.score /\ LocaleLess(a.name, b.name)

\* Array.prototype.sort with that comparator (a stable sort).
RECURSIVE InsertRanked(_, _)
InsertRanked(sorted, x) ==
    IF sorted = <<>> THEN <<x>>
    ELSE IF RankedBefore(x, Head(sorted)) THEN <<x>> \o sorted
    ELSE <<Head(sorted)>> \o InsertRanked(Tail(sorted), x)

RECURSIVE SortRanked(_)
SortRanked(seq) ==
    IF seq = <<>> THEN <<>>
    ELSE InsertRanked(SortRanked(SubSeq(seq, 1, Len(seq) - 1)), seq[Len(seq)])

\* The loop that keeps the first occurrence of each entity_id, up to limit.
RECURSIVE UniqueUpTo(_, _, _)
UniqueUpTo(scored, seen, limit) ==
    IF scored = <<>> THEN <<>>
    ELSE IF Head(scored).entity_id \in seen THEN UniqueUpTo(Tail(scored), seen, limit)
    ELSE IF limit <= 1 THEN <<Head(scored)>>
    ELSE <<Head(scored)>> \o
         UniqueUpTo(Tail(scored), seen \cup {Head(scored).entity_id}, limit - 1)

WithScore(entity, score) ==
    [entity_id |-> entity.entity_id, domain |-> entity.domain, name |-> entity.name,
     area |-> entity.area, state |-> entity.state, normalized |-> entity.normalized,
     supportsBrightness |-> entity.supportsBrightness, score |-> score]

NotStopWord(t) == t \notin STOP_WORDS

QueryTokens(text) == SelectSeq(tokenizeForMatch(text), NotStopWord)

HasPositiveScore(entry) == entry.score > 0

\* A fallback that scores its candidates 1.
FallbackScoreOne == ScoreScale

\* The score of a substring-fallback candidate: 0.5
FallbackScore == ScoreScale \div 2

findEntityCandidates(ctx, text, limit, preferredDomains) ==
    LET Pick(tokens, idx) ==
            LET Fallback(cut) == [i \in 1..Len(cut) |-> WithScore(cut[i], FallbackScore)]
                Decide(unique) ==
                    IF tokens = <<>> THEN <<>>
                    ELSE IF unique = <<>> /\ Len(tokens) = 1
                    THEN Fallback(Take(SelectSeq(idx, LAMBDA e :
                                           Includes(e.entity_id, tokens[1])), limit))
                    ELSE unique
            IN  Decide(UniqueUpTo(
                    SortRanked(SelectSeq(
                        [i \in 1..Len(idx) |->
                            WithScore(idx[i], scoreEntity(idx[i], tokens, preferredDomains,
                                                          ctx.tokenIdf))],
                        HasPositiveScore)),
                    {}, limit))
    IN  IF text = "" \/ Len(ctx.searchIndex) = 0 THEN <<>>
        ELSE Pick(QueryTokens(text), ctx.searchIndex)

\* options.minScore || 1 and options.limit || 5: 0 and a missing option
\* (NoOption) are both falsy.
NoOption == -1

\* A threshold that honours an explicit minimum score of 0.
MinScoreUsedAsGiven(minScore) ==
    IF minScore = NoOption THEN ScoreScale ELSE minScore

MinScoreUsed(minScore) ==
    IF minScore = NoOption \/ minScore = 0 THEN ScoreScale ELSE minScore
LimitUsed(limit) == IF limit = NoOption \/ limit = 0 THEN 5 ELSE limit

\* A resolution that lets the candidate ranking win over the alias table.
selectEntityIdCandidatesFirst(ctx, aliases, text, options) ==
    LET Choose(alias, candidates) ==
            IF candidates # <<>>
               /\ candidates[1].score >= MinScoreUsed(options.minScore)
            THEN candidates[1].entity_id
            ELSE alias
    IN  Choose(resolveAlias(aliases, text),
               findEntityCandidates(ctx, text, LimitUsed(options.limit),
                                    options.preferredDomains))

selectEntityId(ctx, aliases, text, options) ==
    LET Choose(alias, candidates) ==
            IF alias # Null THEN alias
            ELSE IF candidates # <<>>
                    /\ candidates[1].score >= MinScoreUsed(options.minScore)
            THEN candidates[1].entity_id
            ELSE Null
    IN  Choose(resolveAlias(aliases, text),
               findEntityCandidates(ctx, text, LimitUsed(options.limit),
                                    options.preferredDomains))

-----------------------------------------------------------------------------
(* haContext.js: publishing a snapshot *)

\* lastUpdated: null
NoDate == 0

\* The haContext object as the module creates it.
EmptyContext ==
    [lastUpdated |-> NoDate, entities |-> <<>>, summary |-> <<>>,
     grouped |-> <<>>, searchIndex |-> <<>>, entityMap |-> <<>>,
     areaIndex |-> <<>>, tokenIdf |-> <<>>]

\* ensureBlacklistExists(entities): creates the file, listing every entity,
\* when it does not exist; a failure to write is logged and ignored.
ensureBlacklistExists(file, entities) ==
    IF file.exists \/ ~file.writable THEN file
    ELSE [file EXCEPT !.exists = TRUE, !.ids = IdsOf(entities)]

\* loadBlacklist(): the set of listed ids, empty when the file cannot be read
loadBlacklist(file) == IF file.exists THEN file.ids ELSE {}

NotListed(seq, blacklist) == SelectSeq(seq, LAMBDA e : e.entity_id \notin blacklist)

\* The summary text, by the facts it is built from.
LiveSummary(filteredEntities, grouped, t) ==
    <<"live", Len(filteredEntities), t>>
CacheSummary(filteredEntities, blacklist) ==
    <<"cache", Len(filteredEntities), Cardinality(blacklist)>>

\* refreshHaContext, from the HTTP response to the call of
\* persistContextSnapshot: lines 111-146.  data is res.data, t is new Date().
\* A TypeError in mapEntityFromState leaves the context as it was; one in
\* rebuildIndexes comes after entities, lastUpdated, grouped, searchIndex and
\* summary were assigned.
MappingThrows(data) == \E i \in 1..Len(data) : MapThrows(data[i])

RefreshFiltered(data, blFile) ==
    LET Keep(entities) ==
            NotListed(entities, loadBlacklist(ensureBlacklistExists(blFile, entities)))
    IN  Keep([i \in 1..Len(data) |-> mapEntityFromState(data[i])])

RefreshThrows(data, blFile) ==
    \/ MappingThrows(data)
    \/ IndexThrows(RefreshFiltered(data, blFile))

RefreshBlacklistFile(data, blFile) ==
    IF MappingThrows(data) THEN blFile
    ELSE ensureBlacklistExists(blFile, [i \in 1..Len(data) |-> mapEntityFromState(data[i])])

RefreshAssign(ctx, data, blFile, t) ==
    LET Assign(filteredEntities, filteredGrouped, filteredSearchIndex) ==
            rebuildIndexes([ctx EXCEPT !.entities = filteredEntities,
                                       !.lastUpdated = t,
                                       !.grouped = filteredGrouped,
                                       !.searchIndex = filteredSearchIndex,
                                       !.summary = LiveSummary(filteredEntities,
                                                               filteredGrouped, t)],
                           filteredEntities, filteredSearchIndex)
        Filtered(filteredEntities) ==
            Assign(filteredEntities, groupEntities(filteredEntities),
                   [i \in 1..Len(filteredEntities) |-> SearchEntry(filteredEntities[i])])
    IN  IF MappingThrows(data) THEN ctx
        ELSE Filtered(RefreshFiltered(data, blFile))

\* The document persistContextSnapshot writes.
CacheDoc(generatedAt, entities, searchIndex) ==
    [ok |-> TRUE, generatedAt |-> generatedAt, entities |-> entities,
     searchIndex |-> searchIndex]

\* No readable cache document: the file is missing or is not JSON.
NoCacheDoc == [ok |-> FALSE, generatedAt |-> NoDate, entities |-> <<>>,
               searchIndex |-> <<>>]

\* supportsBrightness: entity.supportsBrightness ?? false is the identity on
\* the documents persistContextSnapshot writes, which always hold the field.
CacheAssign(ctx, doc, blFile, t) ==
    LET Assign(blacklist, filteredEntities, filteredSearchIndex) ==
            rebuildIndexes([ctx EXCEPT !.entities = filteredEntities,
                                       !.grouped = groupEntities(filteredEntities),
                                       !.searchIndex = filteredSearchIndex,
                                       !.lastUpdated = IF doc.generatedAt # NoDate
                                                       THEN doc.generatedAt ELSE t,
                                       !.summary = CacheSummary(filteredEntities,
                                                                blacklist)],
                           filteredEntities, filteredSearchIndex)
        Listed(blacklist) ==
            Assign(blacklist, NotListed(doc.entities, blacklist),
                   NotListed(doc.searchIndex, blacklist))
    IN  Listed(loadBlacklist(ensureBlacklistExists(blFile, doc.entities)))

-----------------------------------------------------------------------------
(* resolver.js: conjunction splitter and the direct on/off detector *)

\* The length of the match of
\*   /(?:\s*,\s*(?:and\s+)?|\s+and\s+|\s*&\s*)/i
\* that starts at position p of s, 0 when none does.  The alternatives are
\* tried in order and every quantifier is greedy.
SeparatorAt(s, p) ==
    LET AfterComma(k, low, afterComma) ==
            LET Tail3(andRun) == (afterComma - p) + (IF andRun >= 1 THEN 3 + andRun ELSE 0)
            IN  Tail3(IF HasAt(low, "and", afterComma)
                      THEN SpaceRun(s, afterComma + 3) ELSE 0)
        At(k, low) ==
            IF p + k <= Len(s) /\ Ch(s, p + k) = ","
            THEN AfterComma(k, low, p + k + 1 + SpaceRun(s, p + k + 1))
            ELSE IF k >= 1 /\ HasAt(low, "and", p + k) /\ SpaceRun(s, p + k + 3) >= 1
            THEN k + 3 + SpaceRun(s, p + k + 3)
            ELSE IF p + k <= Len(s) /\ Ch(s, p + k) = "&"
            THEN k + 1 + SpaceRun(s, p + k + 1)
            ELSE 0
    IN  At(SpaceRun(s, p), ToLowerCase(s))

\* String.prototype.split with that expression: the pieces between the
\* leftmost matches, from position p on, the current piece starting at from.
RECURSIVE SplitFrom(_, _, _)
SplitFrom(s, from, p) ==
    IF p > Len(s) THEN <<SubSeq(s, from, Len(s))>>
    ELSE LET Cut(n) ==
                 IF n > 0 THEN <<SubSeq(s, from, p - 1)>> \o SplitFrom(s, p + n, p + n)
                 ELSE SplitFrom(s, from, p + 1)
         IN  Cut(SeparatorAt(s, p))

NonEmpty(x) == x # ""

splitConjunctionTargets(text) ==
    LET Trimmed(pieces) == SelectSeq([i \in 1..Len(pieces) |-> Trim(pieces[i])], NonEmpty)
    IN  Trimmed(SplitFrom(text, 1, 1))

\* What a detector returns: null, or its actions and message.
NullIntent == [isNull |-> TRUE, actions |-> <<>>, successMessage |-> ""]
Intent(actions, successMessage) ==
    [isNull |-> FALSE, actions |-> actions, successMessage |-> successMessage]

Options(preferredDomains, limit, minScore) ==
    [preferredDomains |-> preferredDomains, limit |-> limit, minScore |-> minScore]

directPatterns ==
    << [prefix |-> "turn on ", service |-> "turn_on"],
       [prefix |-> "turn off ", service |-> "turn_off"],
       [prefix |-> "switch on ", service |-> "turn_on"],
       [prefix |-> "switch off ", service |-> "turn_off"] >>

DIRECT_DOMAINS == {"light", "switch", "fan", "cover"}

\* The loop over the segments of one pattern: the actions pushed.
RECURSIVE DirectActions(_, _, _, _)
DirectActions(ctx, aliases, segments, service) ==
    IF segments = <<>> THEN <<>>
    ELSE LET Push(entity) ==
                 << [service |-> entity.domain \o "." \o service,
                     entity_id |-> entity.entity_id,
                     name |-> entity.name] >>
             Step(entityId) ==
                 (IF entityId = Null \/ entityId \notin DOMAIN ctx.entityMap THEN <<>>
                  ELSE Push(getEntityById(ctx, entityId)))
                 \o DirectActions(ctx, aliases, Tail(segments), service)
         IN  Step(selectEntityId(ctx, aliases, Head(segments),
                                 Options(DIRECT_DOMAINS, 5, NoOption)))

\* A decision that keeps whatever actions were resolved.
DirectOutcomePartial(actions, segments, service) ==
    Intent(actions,
           Join([i \in 1..Len(actions) |-> actions[i].name], ", ") \o " "
           \o (IF service = "turn_on" THEN "turned on" ELSE "turned off") \o ".")

\* The decision once one pattern's segments were resolved.
DirectOutcome(actions, segments, service) ==
    IF Len(actions) < Len(segments) THEN NullIntent
    ELSE Intent(actions,
                Join([i \in 1..Len(actions) |-> actions[i].name], ", ") \o " "
                \o (IF service = "turn_on" THEN "turned on" ELSE "turned off") \o ".")

DirectSegments(text, pattern) ==
    LET Rest(trimmed) == Trim(SubSeq(trimmed, Len(pattern.prefix) + 1, Len(trimmed)))
    IN  splitConjunctionTargets(Rest(Trim(text)))

RECURSIVE DirectFrom(_, _, _, _)
DirectFrom(ctx, aliases, text, i) ==
    IF i > Len(directPatterns) THEN NullIntent
    ELSE IF ~StartsWith(ToLowerCase(Trim(text)), directPatterns[i].prefix)
    THEN DirectFrom(ctx, aliases, text, i + 1)
    ELSE LET Decide(segments, actions) ==
                 IF actions = <<>> THEN DirectFrom(ctx, aliases, text, i + 1)
                 ELSE DirectOutcome(actions, segments, directPatterns[i].service)
             Resolve(segments) ==
                 Decide(segments, DirectActions(ctx, aliases, segments,
                                                directPatterns[i].service))
         IN  Resolve(DirectSegments(text, directPatterns[i]))

detectDirectAliasCommand(ctx, aliases, text) == DirectFrom(ctx, aliases, text, 1)

-----------------------------------------------------------------------------
(* resolver.js: the brightness detector *)

RECURSIVE DigitRun(_, _)
DigitRun(s, p) ==
    IF p <= Len(s) /\ IsDigit(Ch(s, p)) THEN 1 + DigitRun(s, p + 1) ELSE 0

\* parseInt(digits, 10) of a run of digits
RECURSIVE ParseInt(_)
ParseInt(digits) ==
    IF digits = "" THEN 0
    ELSE 10 * ParseInt(SubSeq(digits, 1, Len(digits) - 1))
         + (DigitPlace[Ch(digits, Len(digits))] - 1)

\* String(n) of a natural number
RECURSIVE NatText(_)
NatText(n) ==
    IF n < 10 THEN Ch(DigitChars, n + 1)
    ELSE NatText(n \div 10) \o Ch(DigitChars, (n % 10) + 1)

\* A clamp that forgets the upper end of the range.
clampPercentNoCeiling(value) ==
    IF value < 0 THEN 0 ELSE value

\* clampPercent: the value is never NaN, \d{1,3} matched digits
clampPercent(value) ==
    IF value < 0 THEN 0 ELSE IF value > 100 THEN 100 ELSE value

\* Where  \s+to\s+(\d{1,3})(?:\s*%|\s*percent)?$  matches s from position q:
\* the position of the digits and their number, <<0, 0>> when it does not.
\* s is trimmed, so nothing but "", \s*% or \s*percent may follow the digits.
ValueTail(s, q) ==
    LET Unit(rest) == SubSeq(rest, SpaceRun(rest, 1) + 1, Len(rest))
        Ends(unit) == unit = "" \/ unit = "%" \/ unit = "percent"
        Digits(a, b, d, n) ==
            IF a >= 1 /\ HasAt(s, "to", q + a) /\ b >= 1 /\ n >= 1 /\ n <= 3
               /\ Ends(Unit(SubSeq(s, d + n, Len(s))))
            THEN <<d, n>> ELSE <<0, 0>>
        At(a, b, d) == Digits(a, b, d, DigitRun(s, d))
        After(a, b) == At(a, b, q + a + 2 + b)
        To(a) == After(a, SpaceRun(s, q + a + 2))
    IN  To(SpaceRun(s, q))

\* The end of the verb of brightness pattern i at the start of s, 0 if none:
\*   1: set|turn|switch   2: set\s+brightness\s+of   3: dim|brighten
VerbEnd(i, s) ==
    LET first(words) ==
            IF \E w \in words : StartsWith(s, w)
            THEN Len(CHOOSE w \in words : StartsWith(s, w)) ELSE 0
        k1 == SpaceRun(s, 4)
        k2 == SpaceRun(s, 4 + k1 + 10)
    IN  CASE i = 1 -> first({"set", "turn", "switch"})
          [] i = 2 -> IF StartsWith(s, "set") /\ k1 >= 1 /\ HasAt(s, "brightness", 4 + k1)
                         /\ k2 >= 1 /\ HasAt(s, "of", 4 + k1 + 10 + k2)
                      THEN 4 + k1 + 10 + k2 + 1 ELSE 0
          [] OTHER -> first({"dim", "brighten"})

\* The match of brightness pattern i on s: [matched, target, digits].
\* After the verb, \s+ is greedy and gives white space back only when no
\* match is found otherwise; (.+?) is the shortest text that lets the rest
\* of the pattern match.
BrightnessMatch(i, s) ==
    LET MinOf(set) == CHOOSE x \in set : \A y \in set : x <= y
        MaxOf(set) == CHOOSE x \in set : \A y \in set : y <= x
        Ends(e, j) == {h \in (e + j + 1)..Len(s) : ValueTail(s, h + 1)[1] > 0}
        Found(e, j, h, v) ==
            [matched |-> TRUE, target |-> SubSeq(s, e + j + 1, h),
             digits |-> SubSeq(s, v[1], v[1] + v[2] - 1)]
        AtEnd(e, j, h) == Found(e, j, h, ValueTail(s, h + 1))
        AtStart(e, j) == AtEnd(e, j, MinOf(Ends(e, j)))
        From(e, starts) ==
            IF e = 0 \/ starts = {}
            THEN [matched |-> FALSE, target |-> "", digits |-> ""]
            ELSE AtStart(e, MaxOf(starts))
        Spaces(e, k) == From(e, {j \in 1..k : Ends(e, j) # {}})
        Verb(e) == Spaces(e, SpaceRun(s, e + 1))
    IN  Verb(VerbEnd(i, s))

BRIGHTNESS_FILLERS == {"all", "light", "lights", "lamp", "lamps"}
PRONOUNS == {"it", "this", "that", "them"}

NotFiller(token) == token \notin BRIGHTNESS_FILLERS

\* What the detector keeps of a target: an entity or a scored candidate.
TargetOf(e) == [entity_id |-> e.entity_id, name |-> e.name,
                supportsBrightness |-> e.supportsBrightness]

IsDimmableLight(e) == e.domain = "light" /\ e.supportsBrightness

\* A history that keeps one entry more.
maxEntriesPlusOne == 20 + 1

\* memory.js: maxEntries of appendConversationHistory
maxEntries == 20

\* memory.js: getConversationHistory(user)
getConversationHistory(memory, user) ==
    IF user \in DOMAIN memory THEN memory[user] ELSE <<>>

\* memory.js: appendConversationHistory(user, role, content) at time t
appendConversationHistory(memory, user, role, content, t) ==
    LET Set(history) ==
            [u \in DOMAIN memory \cup {user} |-> IF u = user THEN history ELSE memory[u]]
        Splice(history) ==
            IF Len(history) > maxEntries
            THEN SubSeq(history, Len(history) - maxEntries + 1, Len(history))
            ELSE history
    IN  IF content = "" THEN memory
        ELSE Set(Splice(Append(getConversationHistory(memory, user),
                               [role |-> role, content |-> content, at |-> t])))

\* A lookup that answers with the entity of the first user, whoever asks.
getLastEntityIdOfFirstUser(state, user) ==
    IF "alice" \in DOMAIN state THEN state["alice"] ELSE Null

\* getLastEntityId(user): userRuntimeState.get(user)?.lastEntityId
getLastEntityId(state, user) == IF user \in DOMAIN state THEN state[user] ELSE Null

\* The group ("all") path: lines 726-743.
GroupTargets(ctx, rawTarget, filterTokens) ==
    LET query == Join(filterTokens, " ")
        candidates == findEntityCandidates(ctx, IF query # "" THEN query ELSE rawTarget,
                                           50, {"light"})
        hasAll(c) == \A i \in 1..Len(filterTokens) :
            \/ Includes(NormalizedOrEmpty(c), filterTokens[i])
            \/ Includes(ToLowerCase(c.entity_id), filterTokens[i])
        kept == SelectSeq(SelectSeq(candidates, IsDimmableLight), hasAll)
    IN  [i \in 1..Len(kept) |-> TargetOf(kept[i])]

\* One segment of the non-group path: lines 749-778, the targets pushed.
SegmentTargets(ctx, aliases, lastId, segment) ==
    LET First(found) == IF found # <<>> THEN <<TargetOf(found[1])>> ELSE <<>>
        Pushed(entityId) ==
            IF entityId # Null
            THEN IF entityId \in DOMAIN ctx.entityMap
                    /\ getEntityById(ctx, entityId).supportsBrightness
                 THEN <<TargetOf(getEntityById(ctx, entityId))>> ELSE <<>>
            ELSE First(SelectSeq(findEntityCandidates(ctx, segment, 5, {"light"}),
                                 IsDimmableLight))
        lastIsLight == /\ Truthy(lastId)
                       /\ lastId \in DOMAIN ctx.entityMap
                       /\ getEntityById(ctx, lastId).domain = "light"
        Resolve(selected) ==
            Pushed(IF /\ \/ selected = Null
                         \/ selected \notin DOMAIN ctx.entityMap
                         \/ getEntityById(ctx, selected).domain # "light"
                      /\ segment \in PRONOUNS
                      /\ lastIsLight
                   THEN getEntityById(ctx, lastId).entity_id ELSE selected)
    IN  Resolve(selectEntityId(ctx, aliases, segment, Options({"light"}, 5, NoOption)))

RECURSIVE SegmentsTargets(_, _, _, _)
SegmentsTargets(ctx, aliases, lastId, segments) ==
    IF segments = <<>> THEN <<>>
    ELSE SegmentTargets(ctx, aliases, lastId, Head(segments))
         \o SegmentsTargets(ctx, aliases, lastId, Tail(segments))

\* No guard: a partial resolution is never recognised.
PartialResolutionIgnored(segments, targets) == FALSE

\* The guard of line 782.
PartialResolution(segments, targets) ==
    Len(segments) > 1 /\ Len(targets) < Len(segments)

RECURSIVE DedupeFrom(_, _)
DedupeFrom(entities, seen) ==
    IF entities = <<>> THEN <<>>
    ELSE IF Head(entities).entity_id \in seen THEN DedupeFrom(Tail(entities), seen)
    ELSE <<Head(entities)>> \o
         DedupeFrom(Tail(entities), seen \cup {Head(entities).entity_id})

\* A list that keeps every target, repeated or not.
dedupeEntitiesKeepingAll(entities) == entities

dedupeEntities(entities) == DedupeFrom(entities, {})

SupportsBrightness(e) == e.supportsBrightness

BrightnessIntent(dimmableTargets, isAllRequest, value) ==
    LET n == Len(dimmableTargets)
        summaryName ==
            IF isAllRequest THEN NatText(n) \o " light" \o (IF n > 1 THEN "s" ELSE "")
            ELSE IF n > 1 THEN Join([i \in 1..n |-> dimmableTargets[i].name], ", ")
            ELSE dimmableTargets[1].name
    IN  Intent([i \in 1..n |->
                   [service |-> "light.turn_on",
                    entity_id |-> dimmableTargets[i].entity_id,
                    data |-> [brightness_pct |-> value],
                    name |-> dimmableTargets[i].name]],
               summaryName \o " set to " \o NatText(value) \o "%")

RECURSIVE BrightnessFrom(_, _, _, _, _)
BrightnessFrom(ctx, aliases, lastId, text, i) ==
    LET Final(isAllRequest, value, dimmableTargets) ==
            IF dimmableTargets = <<>>
            THEN BrightnessFrom(ctx, aliases, lastId, text, i + 1)
            ELSE BrightnessIntent(dimmableTargets, isAllRequest, value)
        Guarded(isAllRequest, value, segments, targets) ==
            IF ~isAllRequest /\ PartialResolution(segments, targets) THEN NullIntent
            ELSE Final(isAllRequest, value,
                       SelectSeq(dedupeEntities(targets), SupportsBrightness))
        Gather(isAllRequest, value, rawTarget, rawTokens, segments) ==
            Guarded(isAllRequest, value, segments,
                    IF isAllRequest
                    THEN GroupTargets(ctx, rawTarget, SelectSeq(rawTokens, NotFiller))
                    ELSE SegmentsTargets(ctx, aliases, lastId, segments))
        Tokens(value, rawTarget, rawTokens) ==
            Gather(SeqContains(rawTokens, "all"), value, rawTarget, rawTokens,
                   splitConjunctionTargets(rawTarget))
        Target(value, rawTarget) == Tokens(value, rawTarget, tokenizeForMatch(rawTarget))
        Matched(m) ==
            IF ~m.matched THEN BrightnessFrom(ctx, aliases, lastId, text, i + 1)
            ELSE Target(clampPercent(ParseInt(m.digits)), Trim(m.target))
    IN  IF i > 3 THEN NullIntent
        ELSE Matched(BrightnessMatch(i, Trim(ToLowerCase(text))))

\* detectBrightnessCommand(text, sender, {getLastEntityId}); lastId is what
\* getLastEntityId(sender) returns.
detectBrightnessCommand(ctx, aliases, lastId, text) ==
    BrightnessFrom(ctx, aliases, lastId, text, 1)

-----------------------------------------------------------------------------
(* resolver.js: the state-query and pronoun detectors, the simple fallback *)

\* isDiagnosticCommand(text)
isDiagnosticCommand(text) ==
    LET Is(normalized) == normalized = "#context" \/ normalized = "#dump context"
    IN  Is(ToLowerCase(Trim(text)))

\* The position that follows the word w at position p of s and the white
\* space after it (w\s+), 0 when s does not continue like that.
AfterWord(s, w, p) ==
    LET After(run) == IF run >= 1 THEN p + Len(w) + run ELSE 0
    IN  IF HasAt(s, w, p) THEN After(SpaceRun(s, p + Len(w))) ELSE 0

\* (?:w1|w2|...)\s+ : the alternatives are tried in order.
RECURSIVE AfterAny(_, _, _)
AfterAny(s, ws, p) ==
    IF ws = <<>> THEN 0
    ELSE LET Or(q) == IF q > 0 THEN q ELSE AfterAny(s, Tail(ws), p)
         IN  Or(AfterWord(s, Head(ws), p))

\* (?:w\s+)?
AfterOptional(s, w, p) ==
    LET Or(q) == IF q > 0 THEN q ELSE p
    IN  Or(AfterWord(s, w, p))

\* Where the last group (.+) of the i-th state-query pattern starts in the
\* lowered, trimmed text; 0 when the pattern does not match.
StateQueryTargetAt(i, lowered) ==
    IF i = 1 THEN AfterWord(lowered, "status", 1)
    ELSE IF i = 2
    THEN AfterOptional(lowered, "of",
             AfterAny(lowered, <<"status", "state">>,
                 AfterOptional(lowered, "the",
                     AfterAny(lowered, <<"what's", "whats", "what is">>, 1))))
    ELSE IF i = 3 THEN AfterWord(lowered, "state", 1)
    ELSE AfterWord(lowered, "check", 1)

STATE_QUERY_DOMAINS ==
    {"light", "switch", "fan", "cover", "climate", "media_player", "sensor"}

NullStateQuery == [isNull |-> TRUE, entity_id |-> Null, target |-> ""]
StateQuery(entity_id, target) ==
    [isNull |-> FALSE, entity_id |-> entity_id, target |-> target]

RECURSIVE StateQueryFrom(_, _, _, _)
StateQueryFrom(ctx, aliases, text, i) ==
    LET Found(target, entityId) ==
            IF entityId # Null THEN StateQuery(entityId, target)
            ELSE StateQueryFrom(ctx, aliases, text, i + 1)
        Select(target) ==
            Found(target, selectEntityId(ctx, aliases, target,
                                         Options(STATE_QUERY_DOMAINS, NoOption, NoOption)))
        Matched(lowered, at) ==
            IF at = 0 THEN StateQueryFrom(ctx, aliases, text, i + 1)
            ELSE Select(Trim(SubSeq(lowered, at, Len(lowered))))
        Try(lowered) == Matched(lowered, StateQueryTargetAt(i, lowered))
    IN  IF i > 4 THEN NullStateQuery ELSE Try(Trim(ToLowerCase(text)))

detectStateQueryCommand(ctx, aliases, text) == StateQueryFrom(ctx, aliases, text, 1)

\* Does detectStateQueryCommand(text) reach selectEntityId?
StateQueryUsesAliases(text) ==
    \E i \in 1..4 : StateQueryTargetAt(i, Trim(ToLowerCase(text))) > 0

\* /^(?:turn|switch)\s+(?:it|them|this|that)\s+(?:back\s+)?(on|off)$/ on the
\* lowered, trimmed text: the last group, or null.
PronounMatch(lowered) ==
    LET Last(at, rest) == IF at > 0 /\ rest \in {"on", "off"} THEN rest ELSE Null
        At(at) == Last(at, SubSeq(lowered, at, Len(lowered)))
    IN  At(AfterOptional(lowered, "back",
               AfterAny(lowered, <<"it", "them", "this", "that">>,
                   AfterAny(lowered, <<"turn", "switch">>, 1))))

NullPronoun == [isNull |-> TRUE, service |-> "", entity_id |-> Null,
                successMessage |-> ""]

\* detectPronounCommand(text, sender, {getLastEntityId}); lastId is what
\* getLastEntityId(sender) returns.
detectPronounCommand(ctx, lastId, text) ==
    LET Act(entity, action) ==
            [isNull |-> FALSE,
             service |-> entity.domain \o "." \o action,
             entity_id |-> entity.entity_id,
             successMessage |-> entity.name \o " "
                 \o (IF action = "turn_on" THEN "turned on" ELSE "turned off") \o "."]
        Matched(word) ==
            IF word = Null \/ ~Truthy(lastId) \/ lastId \notin DOMAIN ctx.entityMap
            THEN NullPronoun
            ELSE Act(getEntityById(ctx, lastId),
                     IF word = "on" THEN "turn_on" ELSE "turn_off")
    IN  Matched(PronounMatch(Trim(ToLowerCase(text))))

\* entity?.name || entityId
NameOf(ctx, entityId) ==
    IF entityId \in DOMAIN ctx.entityMap /\ Truthy(ctx.entityMap[entityId].name)
    THEN ctx.entityMap[entityId].name ELSE entityId

UnknownDevice(target) ==
    "I don't know the device \"" \o target \o "\". Try adding it to config/aliases.json."

\* controlDevice(target, action).  selectEntityId returns the alias when
\* there is one, so both branches answer for selectEntityId's id.
controlDevice(ctx, aliases, target, action) ==
    LET Say(entityId) ==
            IF entityId = Null THEN UnknownDevice(target)
            ELSE NameOf(ctx, entityId) \o " "
                 \o (IF action = "turn_on" THEN "turned on" ELSE "turned off") \o "."
    IN  Say(selectEntityId(ctx, aliases, target, Options(DIRECT_DOMAINS, NoOption, NoOption)))

FETCH_STATUS_DOMAINS == {"light", "switch", "fan", "cover", "climate", "sensor"}

\* entity?.state || "unknown"
StateOf(ctx, entityId) ==
    IF entityId \in DOMAIN ctx.entityMap /\ Truthy(ctx.entityMap[entityId].state)
    THEN ctx.entityMap[entityId].state ELSE "unknown"

\* fetchStatus(target)
fetchStatus(ctx, aliases, target) ==
    LET Say(entityId) ==
            IF entityId = Null THEN UnknownDevice(target)
            ELSE NameOf(ctx, entityId) \o " is currently " \o StateOf(ctx, entityId) \o "."
    IN  Say(selectEntityId(ctx, aliases, target,
                           Options(FETCH_STATUS_DOMAINS, NoOption, NoOption)))

\* The prefix of the simple fallback that normalized starts with, "" when none.
FallbackPrefix(normalized) ==
    IF StartsWith(normalized, "turn on ") THEN "turn on "
    ELSE IF StartsWith(normalized, "turn off ") THEN "turn off "
    ELSE IF StartsWith(normalized, "status ") THEN "status "
    ELSE ""

FallbackHelp ==
    "Send a command like \"turn on living room light\" or \"status kitchen light\"."

\* fallbackSimpleHandler(text): it answers from the snapshot and calls no
\* Home Assistant service.
fallbackSimpleHandler(ctx, aliases, text) ==
    LET Handle(prefix, target) ==
            IF prefix = "" THEN FallbackHelp
            ELSE IF prefix = "status " THEN fetchStatus(ctx, aliases, target)
            ELSE controlDevice(ctx, aliases, target,
                               IF prefix = "turn on " THEN "turn_on" ELSE "turn_off")
        Cut(normalized, prefix) ==
            Handle(prefix, Trim(SubSeq(normalized, Len(prefix) + 1, Len(normalized))))
        Lowered(normalized) == Cut(normalized, FallbackPrefix(normalized))
    IN  Lowered(ToLowerCase(text))

-----------------------------------------------------------------------------
(* resolver.js: the snippet of entities for the planner *)

\* A cap of one more than the code's.
MAX_PER_DOMAIN_PLUS_ONE == 40 + 1

MAX_PER_DOMAIN == 40

NoCandidatesText == "No direct candidate entities found."

\* What one line of the snippet prints of an entity; a score that is not
\* above 0 is not printed.
SnippetLine(entity, score) ==
    [name |-> entity.name, area |-> entity.area, entity_id |-> entity.entity_id,
     domain |-> entity.domain, state |-> entity.state, score |-> score]

\* The inner loop of step 2: the entities of one domain that are not seen
\* yet, MAX_PER_DOMAIN of them at most.
RECURSIVE DomainBackfill(_, _, _)
DomainBackfill(entities, seen, added) ==
    IF entities = <<>> THEN <<>>
    ELSE IF Head(entities).entity_id \in seen
    THEN DomainBackfill(Tail(entities), seen, added)
    ELSE IF added + 1 >= MAX_PER_DOMAIN THEN <<Head(entities)>>
    ELSE <<Head(entities)>> \o
         DomainBackfill(Tail(entities), seen \cup {Head(entities).entity_id}, added + 1)

\* The outer loop of step 2, over the requested domains.
RECURSIVE Backfill(_, _, _)
Backfill(ctx, domains, seen) ==
    IF domains = <<>> THEN <<>>
    ELSE LET Add(added) ==
                 added \o Backfill(ctx, Tail(domains),
                                   seen \cup {added[i].entity_id : i \in 1..Len(added)})
         IN  Add(DomainBackfill(IF Head(domains) \in DOMAIN ctx.grouped
                                THEN ctx.grouped[Head(domains)] ELSE <<>>,
                                seen, 0))

\* buildRelevantEntitiesSnippet(text, {domains, limit}): the fixed text, or
\* the lines of the snippet in their order (the text joins them by "\n").
buildRelevantEntitiesSnippet(ctx, text, domains, limit) ==
    LET Lines(all) ==
            IF all = <<>> THEN [fixed |-> NoCandidatesText, lines |-> <<>>]
            ELSE [fixed |-> "", lines |-> all]
        Slice(candidates, domainEntities) ==
            Lines(Take([i \in 1..Len(candidates) |->
                           SnippetLine(candidates[i], candidates[i].score)]
                       \o [i \in 1..Len(domainEntities) |->
                             SnippetLine(domainEntities[i], 0)],
                       IF limit = NoOption THEN 30 ELSE limit))
        Pull(candidates) ==
            Slice(candidates,
                  Backfill(ctx, domains,
                           {candidates[i].entity_id : i \in 1..Len(candidates)}))
    IN  Pull(findEntityCandidates(ctx, text, 15, {}))

-----------------------------------------------------------------------------
(* The environment: Home Assistant states, alias documents, users *)

Attributes(friendly_name, area, modes, features) ==
    [friendly_name |-> friendly_name, area |-> area, room |-> Null,
     brightness |-> Null, brightness_pct |-> Null,
     supported_color_modes |-> modes, supported_features |-> features]

StateItem(entity_id, state, attributes) ==
    [entity_id |-> entity_id, state |-> state, attributes |-> attributes]

ItemWhiskey == StateItem("light.whiskey", "on",
                         Attributes("Whiskey", Null, <<"brightness">>, 0))
ItemCouch == StateItem("light.couch", "off",
                       Attributes("Couch Lamp", "Living Room", <<"hs">>, 0))
ItemWall == StateItem("light.the_wall", "off",
                      Attributes("Wall Lamp", "Living Room", <<>>, 1))
ItemPlug == StateItem("switch.couch_plug", "on",
                      Attributes("Couch Plug", "Living Room", <<>>, 0))
ItemKitchenMain == StateItem("light.kitchen_main", "on",
                             Attributes("Kitchen Main", "Kitchen", <<"brightness">>, 0))
ItemKitchenSpot == StateItem("light.kitchen_spot", "off",
                             Attributes("Kitchen Spot", "Kitchen", <<"color_temp">>, 0))
ItemKitchenStrip == StateItem("light.kitchen_strip", "off",
                              Attributes("Kitchen Strip", "Kitchen", <<"rgb">>, 0))
ItemKettle == StateItem("switch.kitchen_kettle", "off",
                        Attributes("Kitchen Kettle", "Kitchen", <<>>, 0))
ItemHood == StateItem("light.kitchen_hood", "off",
                      Attributes("Kitchen Hood", "Kitchen", <<"onoff">>, 0))
\* A state whose attribute area is the number 42 (a cleaned area).
ItemRobot == StateItem("vacuum.robot", "docked",
                       Attributes("Robot", "<number:42>", <<>>, 0))
\* A state object without entity_id.
ItemBroken == StateItem(Null, "on", Attributes(Null, Null, <<>>, 0))

StatesLiving == <<ItemWhiskey, ItemCouch, ItemWall, ItemPlug>>
StatesKitchen == <<ItemKitchenMain, ItemKitchenSpot, ItemKitchenStrip,
                   ItemKettle, ItemHood, ItemWhiskey>>
StatesSmall == <<ItemWhiskey, ItemCouch>>

NoBlacklist == [exists |-> TRUE, ids |-> {}, writable |-> TRUE]

\* The snapshot a successful refresh of these states publishes at time t.
SnapshotOf(data, t) == RefreshAssign(EmptyContext, data, NoBlacklist, t)

AliasDoc(entries) == [ok |-> TRUE, entries |-> entries]
\* The alias document is missing or is not JSON.
AliasDocBroken == [ok |-> FALSE, entries |-> <<>>]

AliasDocHome ==
    AliasDoc(<< <<"whiskey", "light.whiskey">>,
                <<" Couch ", "light.couch">>,
                <<"the wall", "light.the_wall">>,
                <<"lamp", "light.the_wall">>,
                <<"movie", "scene.movie">> >>)
AliasDocSwapped ==
    AliasDoc(<< <<"whiskey", "light.couch">>,
                <<"Kettle", "switch.kitchen_kettle">>,
                <<"hood", "light.kitchen_hood">>,
                <<"plu", "switch.couch_plug">> >>)

Users == {"alice", "bob"}

-----------------------------------------------------------------------------
(* Resolver calls on a published snapshot *)

\* Date.now() when the model starts.
NowStart == 100000

\* A resolver call and what it returned; read: did it read the alias
\* document; prior: aliasLastLoaded when it was made.
NoSnippet == [fixed |-> "", lines |-> <<>>]

NoCall == [op |-> "none", text |-> "", user |-> "",
           options |-> Options({}, NoOption, NoOption),
           id |-> Null, intent |-> NullIntent, candidates |-> <<>>,
           query |-> NullStateQuery, pronoun |-> NullPronoun, tokens |-> <<>>,
           domains |-> <<>>, snippet |-> NoSnippet,
           read |-> FALSE, prior |-> 0]

\* haContext.js before startHaContextLoop: nothing in flight.
\* refreshes: the calls of refreshHaContext in flight, each waiting for the
\* HTTP response ("http") or in persistContextSnapshot ("persist");
\* launched and failed count the calls made and the calls that failed,
\* resolverCalls the calls of contextReadyResolver.
NoTasks == [started |-> FALSE, configured |-> TRUE, cache |-> "idle",
            refreshes |-> <<>>, launched |-> 0, failed |-> 0, resolverCalls |-> 0]

\* No text command is in progress.  planner is hasPlanner().
NoRequest == [pc |-> "idle", text |-> "", sender |-> "", planner |-> FALSE,
              tried |-> <<>>, source |-> "none", actions |-> <<>>,
              successMessage |-> "", final |-> "", results |-> <<>>,
              calls |-> <<>>, reply |-> Null]

Snapshots == {SnapshotOf(StatesLiving, NowStart), SnapshotOf(StatesKitchen, NowStart),
              EmptyContext}

AliasDocs == {AliasDocHome, AliasDocSwapped, AliasDocBroken}

LastEntities == { <<>>, [u \in {"alice"} |-> "light.couch"] }

\* Both users have referred to an entity, each to another one.
LastEntitiesOfTwo ==
    LastEntities \cup {[u \in Users |-> IF u = "alice" THEN "light.whiskey"
                                       ELSE "switch.couch_plug"]}

\* The arguments of the direct calls of the pronoun and state-query detectors.
PronounTexts == {"turn it on", "Switch them back OFF", " turn that off ",
                 "switch this back on", "turn it", "turn the lamp on"}
StateQueryTexts == {"status couch", "what's the state of whiskey", "check movie",
                    "state plug", "status qqq", "status", "hello"}

SelectTexts == {"whiskey", "Lamp ", " COUCH", "movie", "plug", "plu", "kitchen",
                "hood", "xyz", ""}

SelectOptions ==
    {Options({}, NoOption, NoOption), Options({"light"}, NoOption, NoOption),
     Options({"switch"}, 1, NoOption), Options({}, NoOption, 0),
     Options({"light"}, NoOption, 8 * ScoreScale), Options({}, 1, 0),
     Options({}, NoOption, ScoreScale \div 2), Options({}, NoOption, (3 * ScoreScale) \div 4),
     Options({}, NoOption, 0 - ScoreScale)}

DirectTexts == {"turn on couch and the wall", "Turn OFF couch, the wall, and whiskey",
                "turn off couch and movie", "switch off plug", "switch on couch & couch",
                "turn on xyz and qqq", "turn on whiskey AND xyz", "turn on kitchen",
                "turn on ,", "turn on", "hello there"}

BrightnessTexts == {"set couch and the wall to 44%", "Set couch, the wall, and whiskey to 80%",
                    "dim couch to 25%", "set couch and plug to 30", "set couch and couch to 30",
                    "set whiskey to 150", "set all kitchen lights to 20%", "set all to 50%",
                    "set all the lights to 20%", "set all lights to 20 percent",
                    "dim all kit to 5", "set brightness of couch to 10", "set it to 10",
                    "brighten hood and kitchen main to 7", "set xyz to 10", "turn on couch",
                    "set whiskey to 0", "set whiskey to 007%", "Set Whiskey to 100 percent",
                    "dim whiskey to 101", "set whiskey to 999%", "set whiskey to 1000%",
                    "set whiskey to -5%"}

\* The arguments of the direct calls of the tokenizer.
TokenizeTexts == {"turn on the ac", "tv", "a", "Kitchen-Light_2 ON!", "LED pir x1 ir",
                  "Set the TV to 40%", "switch.couch_plug", "ab  cd", "  ", ""}

\* The arguments of the direct calls of Candidate Search.
CandidateTexts == {"kitchen", "Kitchen lights", "couch lamp", "living room", "whiskey",
                   "whiskey whiskey", "lamp couch plug",
                   "plu", "kitche", "plu cou", "the", "", "xyz"}
CandidateLimits == {0, 1, 2, 8}
CandidateDomains == {{}, {"light"}}

Init ==
    /\ haContext \in Snapshots
    /\ contextReady = TRUE
    /\ cacheFile = NoCacheDoc
    /\ blacklistFile = NoBlacklist
    /\ tasks = NoTasks
    /\ aliasCache = NoCache
    /\ aliasLastLoaded = 0
    /\ aliasFile \in AliasDocs
    /\ now = NowStart
    /\ userRuntimeState \in LastEntitiesOfTwo
    /\ conversationMemory = <<>>
    /\ call = NoCall
    /\ req = NoRequest

\* loadAliases() called now
Loaded == loadAliases(aliasCache, aliasLastLoaded, aliasFile, now)

\* Did a call that did (used) or did not call loadAliases read the file?
AliasRead(used) == used /\ Loaded.read

\* The alias state after such a call.
AliasEffect(used) ==
    IF used THEN /\ aliasCache' = Loaded.cache
                 /\ aliasLastLoaded' = Loaded.lastLoaded
    ELSE UNCHANGED <<aliasCache, aliasLastLoaded>>

\* Does detectDirectAliasCommand(text) reach selectEntityId?
DirectUsesAliases(text) ==
    \E i \in 1..Len(directPatterns) :
        /\ StartsWith(ToLowerCase(Trim(text)), directPatterns[i].prefix)
        /\ DirectSegments(text, directPatterns[i]) # <<>>

\* The brightness patterns that match text.
BrightnessMatches(text) ==
    {i \in 1..3 : BrightnessMatch(i, Trim(ToLowerCase(text))).matched}

BrightnessTarget(text, i) == Trim(BrightnessMatch(i, Trim(ToLowerCase(text))).target)

\* Does detectBrightnessCommand(text) reach selectEntityId?  Every pattern
\* that matches a text captures a target with or without the token "all"
\* alike, and the first one that matches runs its segment loop.
BrightnessUsesAliases(text) ==
    \E i \in BrightnessMatches(text) :
        /\ \A j \in BrightnessMatches(text) : i <= j
        /\ ~SeqContains(tokenizeForMatch(BrightnessTarget(text, i)), "all")
        /\ splitConjunctionTargets(BrightnessTarget(text, i)) # <<>>

Unused == UNCHANGED <<haContext, contextReady, cacheFile, blacklistFile, tasks,
                      aliasFile, now, userRuntimeState, conversationMemory, req>>

\* selectEntityId(text, options) is called and returns.
SelectCall(text, options) ==
    /\ call' = [NoCall EXCEPT !.op = "selectEntityId", !.text = text,
                              !.options = options,
                              !.read = AliasRead(NormalizeKey(text) # ""),
                              !.prior = aliasLastLoaded,
                              !.id = selectEntityId(haContext, Loaded.cache.table,
                                                    text, options)]
    /\ AliasEffect(NormalizeKey(text) # "")

CallSelectEntityId ==
    /\ call.op = "none"
    /\ \E text \in SelectTexts, options \in SelectOptions : SelectCall(text, options)
    /\ Unused

CallDetectDirectAliasCommand ==
    /\ call.op = "none"
    /\ \E text \in DirectTexts :
        /\ call' = [NoCall EXCEPT !.op = "detectDirectAliasCommand", !.text = text,
                                  !.read = AliasRead(DirectUsesAliases(text)),
                                  !.prior = aliasLastLoaded,
                                  !.intent = detectDirectAliasCommand(
                                                 haContext, Loaded.cache.table, text)]
        /\ AliasEffect(DirectUsesAliases(text))
    /\ Unused

CallDetectBrightnessCommand ==
    /\ call.op = "none"
    /\ \E text \in BrightnessTexts, user \in Users :
        /\ call' = [NoCall EXCEPT !.op = "detectBrightnessCommand", !.text = text,
                                  !.user = user,
                                  !.read = AliasRead(BrightnessUsesAliases(text)),
                                  !.prior = aliasLastLoaded,
                                  !.intent = detectBrightnessCommand(
                                                 haContext, Loaded.cache.table,
                                                 getLastEntityId(userRuntimeState, user),
                                                 text)]
        /\ AliasEffect(BrightnessUsesAliases(text))
    /\ Unused

\* tokenizeForMatch(text) is called and returns.
CallTokenizeForMatch ==
    /\ call.op = "none"
    /\ \E text \in TokenizeTexts :
        call' = [NoCall EXCEPT !.op = "tokenizeForMatch", !.text = text,
                               !.tokens = tokenizeForMatch(text)]
    /\ UNCHANGED <<aliasCache, aliasLastLoaded>>
    /\ Unused

\* detectStateQueryCommand(text) is called and returns.
CallDetectStateQueryCommand ==
    /\ call.op = "none"
    /\ \E text \in StateQueryTexts :
        /\ call' = [NoCall EXCEPT !.op = "detectStateQueryCommand", !.text = text,
                                  !.read = AliasRead(StateQueryUsesAliases(text)),
                                  !.prior = aliasLastLoaded,
                                  !.query = detectStateQueryCommand(
                                                haContext, Loaded.cache.table, text)]
        /\ AliasEffect(StateQueryUsesAliases(text))
    /\ Unused

\* A pronoun detector that remembers the entity it answered with.
CallDetectPronounCommandRemembering ==
    /\ call.op = "none"
    /\ \E text \in PronounTexts, user \in Users :
        LET Keep(result) ==
                /\ call' = [NoCall EXCEPT !.op = "detectPronounCommand", !.text = text,
                                          !.user = user, !.pronoun = result]
                /\ userRuntimeState' =
                       IF result.isNull THEN userRuntimeState
                       ELSE [u \in Users |-> result.entity_id]
        IN  Keep(detectPronounCommand(haContext,
                                      getLastEntityId(userRuntimeState, user), text))
    /\ UNCHANGED <<aliasCache, aliasLastLoaded, haContext, contextReady, cacheFile,
                   blacklistFile, tasks, aliasFile, now, conversationMemory, req>>

\* detectPronounCommand(text, sender) is called and returns; it reads no
\* alias.
CallDetectPronounCommand ==
    /\ call.op = "none"
    /\ \E text \in PronounTexts, user \in Users :
        call' = [NoCall EXCEPT !.op = "detectPronounCommand", !.text = text,
                               !.user = user,
                               !.pronoun = detectPronounCommand(
                                               haContext,
                                               getLastEntityId(userRuntimeState, user),
                                               text)]
    /\ UNCHANGED <<aliasCache, aliasLastLoaded>>
    /\ Unused

\* findEntityCandidates(text, limit, {preferredDomains}) is called and
\* returns; it reads no alias.
CallFindEntityCandidates ==
    /\ call.op = "none"
    /\ \E text \in CandidateTexts, limit \in CandidateLimits,
          preferredDomains \in CandidateDomains :
        call' = [NoCall EXCEPT !.op = "findEntityCandidates", !.text = text,
                               !.options = Options(preferredDomains, limit, NoOption),
                               !.candidates = findEntityCandidates(
                                                  haContext, text, limit, preferredDomains)]
    /\ UNCHANGED <<aliasCache, aliasLastLoaded>>
    /\ Unused

\* The caller takes the result; the next call may follow.
Return ==
    /\ call.op # "none"
    /\ call' = NoCall
    /\ UNCHANGED <<aliasCache, aliasLastLoaded>>
    /\ Unused

Next ==
    \/ CallSelectEntityId
    \/ CallDetectDirectAliasCommand
    \/ CallDetectBrightnessCommand
    \/ CallDetectStateQueryCommand
    \/ CallDetectPronounCommand
    \/ CallFindEntityCandidates
    \/ CallTokenizeForMatch
    \/ Return

Spec == Init /\ [][Next]_vars

-----------------------------------------------------------------------------
(* The planner's snippet on a published snapshot *)

TwoDigits(n) == Ch(DigitChars, (n \div 10) + 1) \o Ch(DigitChars, (n % 10) + 1)

\* A hall of 42 lights, two more than MAX_PER_DOMAIN.
HallLights == 42
StatesHall ==
    [i \in 1..HallLights |->
        StateItem("light.hall_" \o TwoDigits(i), "off",
                  Attributes("Hall " \o TwoDigits(i), "Hall", <<>>, 0))]

SnippetSnapshots == {SnapshotOf(StatesLiving, NowStart), SnapshotOf(StatesHall, NowStart),
                     EmptyContext}

\* The arguments of the calls: texts, lists of requested domains, limits.
SnippetTexts == {"turn on the light", "hall", "turn on hall 07", "couch lamp",
                 "qqq", ""}
SnippetDomains == {<<>>, <<"light">>, <<"switch", "light">>, <<"cover">>}
SnippetLimits == {NoOption, 0, 3, 50}

InitSnippet ==
    /\ haContext \in SnippetSnapshots
    /\ contextReady = TRUE
    /\ cacheFile = NoCacheDoc
    /\ blacklistFile = NoBlacklist
    /\ tasks = NoTasks
    /\ aliasCache = NoCache
    /\ aliasLastLoaded = 0
    /\ aliasFile = AliasDocHome
    /\ now = NowStart
    /\ userRuntimeState = <<>>
    /\ conversationMemory = <<>>
    /\ call = NoCall
    /\ req = NoRequest

\* buildRelevantEntitiesSnippet(text, {domains, limit}) is called and
\* returns; it reads no alias.
CallBuildRelevantEntitiesSnippet ==
    /\ call.op = "none"
    /\ \E text \in SnippetTexts, domains \in SnippetDomains, limit \in SnippetLimits :
        call' = [NoCall EXCEPT !.op = "buildRelevantEntitiesSnippet", !.text = text,
                               !.domains = domains,
                               !.options = Options({}, limit, NoOption),
                               !.snippet = buildRelevantEntitiesSnippet(
                                               haContext, text, domains, limit)]
    /\ UNCHANGED <<aliasCache, aliasLastLoaded>>
    /\ Unused

NextSnippet ==
    \/ CallBuildRelevantEntitiesSnippet
    \/ Return

SpecSnippet == InitSnippet /\ [][NextSnippet]_vars

-----------------------------------------------------------------------------
(* The conversation history over a sequence of appends *)

\* The most appends of non-empty content one user makes.
MaxAppends == 22

\* The texts of the conversation: the n-th message of a user is Message(n).
Message(n) == "m" \o TwoDigits(n)

\* How many messages the history of the user shows to have been appended: the
\* number of its last one.
Appended(memory, user) ==
    LET Last(history) ==
            IF history = <<>> THEN 0
            ELSE CHOOSE n \in 1..(MaxAppends + 1) :
                     Message(n) = history[Len(history)].content
    IN  Last(getConversationHistory(memory, user))

InitHistory ==
    /\ haContext = EmptyContext
    /\ contextReady = FALSE
    /\ cacheFile = NoCacheDoc
    /\ blacklistFile = NoBlacklist
    /\ tasks = NoTasks
    /\ aliasCache = NoCache
    /\ aliasLastLoaded = 0
    /\ aliasFile = AliasDocHome
    /\ now = NowStart
    /\ userRuntimeState = <<>>
    /\ conversationMemory = <<>>
    /\ call = NoCall
    /\ req = NoRequest

HistoryRest == <<haContext, contextReady, cacheFile, blacklistFile, tasks, aliasCache,
                 aliasLastLoaded, aliasFile, now, userRuntimeState, req>>

\* appendConversationHistory(user, role, content) is called and returns:
\* the content is empty or the next message of the user, the role that of
\* handleMessage (the user's text, then the reply).
CallAppendConversationHistory ==
    /\ call.op = "none"
    /\ \E user \in Users :
        LET Call(n) ==
                /\ n < MaxAppends
                /\ \E content \in {"", Message(n + 1)} :
                    /\ call' = [NoCall EXCEPT !.op = "appendConversationHistory",
                                              !.user = user, !.text = content]
                    /\ conversationMemory' =
                           appendConversationHistory(
                               conversationMemory, user,
                               IF n % 2 = 0 THEN "user" ELSE "assistant", content, now)
        IN  Call(Appended(conversationMemory, user))
    /\ UNCHANGED HistoryRest

\* The caller goes on; the next call may follow.
ReturnHistory ==
    /\ call.op # "none"
    /\ call' = NoCall
    /\ UNCHANGED conversationMemory
    /\ UNCHANGED HistoryRest

NextHistory ==
    \/ CallAppendConversationHistory
    \/ ReturnHistory

SpecHistory == InitHistory /\ [][NextHistory]_vars

-----------------------------------------------------------------------------
(* The alias table over time *)

TickShort == 20000
TickLong == 30000
MaxElapsed == 120000

AliasTexts == {"whiskey", "lamp"}

InitAlias ==
    /\ haContext = SnapshotOf(StatesSmall, NowStart)
    /\ contextReady = TRUE
    /\ cacheFile = NoCacheDoc
    /\ blacklistFile = NoBlacklist
    /\ tasks = NoTasks
    /\ aliasCache = NoCache
    /\ aliasLastLoaded = 0
    /\ aliasFile \in AliasDocs
    /\ now = NowStart
    /\ userRuntimeState = <<>>
    /\ conversationMemory = <<>>
    /\ call = NoCall
    /\ req = NoRequest

\* Time passes between two calls.
Tick ==
    /\ call.op = "none"
    /\ \E d \in {TickShort, TickLong} :
        /\ now + d <= NowStart + MaxElapsed
        /\ now' = now + d
    /\ UNCHANGED <<haContext, contextReady, cacheFile, blacklistFile, tasks, aliasCache,
                   aliasLastLoaded, aliasFile, userRuntimeState, conversationMemory,
                   call, req>>

\* config/aliases.json is edited, or damaged.
WriteAliases ==
    /\ call.op = "none"
    /\ \E doc \in AliasDocs \ {aliasFile} : aliasFile' = doc
    /\ UNCHANGED <<haContext, contextReady, cacheFile, blacklistFile, tasks, aliasCache,
                   aliasLastLoaded, now, userRuntimeState, conversationMemory,
                   call, req>>

CallResolveAlias ==
    /\ call.op = "none"
    /\ \E text \in AliasTexts : SelectCall(text, Options({}, NoOption, NoOption))
    /\ Unused

NextAlias ==
    \/ CallResolveAlias
    \/ Tick
    \/ WriteAliases
    \/ Return

SpecAlias == InitAlias /\ [][NextAlias]_vars

-----------------------------------------------------------------------------
(* haContext.js: cache load and live refreshes *)

MaxRefreshes == 2

StatesNumericArea == <<ItemCouch, ItemRobot>>
StatesNumericAreaLater == <<ItemWhiskey, ItemRobot>>
StatesNoId == <<ItemBroken>>

\* What GET /api/states answers: an error, or the states.
HttpError == [ok |-> FALSE, data |-> <<>>]
HttpResponses ==
    {HttpError} \cup
    {[ok |-> TRUE, data |-> d] : d \in {StatesSmall, StatesLiving, StatesNumericArea,
                                        StatesNumericAreaLater, StatesNoId}}

\* The cache of an earlier run.
CacheDocOld ==
    CacheDoc(NowStart - 1, SnapshotOf(StatesSmall, NowStart - 1).entities,
             SnapshotOf(StatesSmall, NowStart - 1).searchIndex)

MissingBlacklist == [exists |-> FALSE, ids |-> {}, writable |-> TRUE]
BlacklistCouch == [exists |-> TRUE, ids |-> {"light.couch"}, writable |-> TRUE]

InitContext ==
    /\ haContext = EmptyContext
    /\ contextReady = FALSE
    /\ cacheFile \in {NoCacheDoc, CacheDocOld}
    /\ blacklistFile \in {NoBlacklist, BlacklistCouch, MissingBlacklist}
    /\ tasks \in {[NoTasks EXCEPT !.configured = c] : c \in BOOLEAN}
    /\ aliasCache = NoCache
    /\ aliasLastLoaded = 0
    /\ aliasFile = AliasDocHome
    /\ now = NowStart
    /\ userRuntimeState = <<>>
    /\ conversationMemory = <<>>
    /\ call = NoCall
    /\ req = NoRequest

HttpTask == [pc |-> "http", entities |-> <<>>]

\* refreshHaContext(haBaseUrl, haToken) up to its first await.
LaunchRefresh(t) ==
    IF t.configured
    THEN [t EXCEPT !.refreshes = Append(@, HttpTask), !.launched = @ + 1]
    ELSE [t EXCEPT !.launched = @ + 1, !.failed = @ + 1]

Without(seq, k) == SubSeq(seq, 1, k - 1) \o SubSeq(seq, k + 1, Len(seq))

markContextReady == TRUE

\* A markContextReady that calls the resolver every time.
ResolverCallsUnguarded(resolved, calls) == calls + 1

\* markContextReady: if (!contextReadyResolved) { ...; contextReadyResolver?.() }
ResolverCalls(resolved, calls) == IF resolved THEN calls ELSE calls + 1

ContextRest == <<aliasCache, aliasLastLoaded, aliasFile, userRuntimeState,
                 conversationMemory, call, req>>

startHaContextLoop ==
    /\ ~tasks.started
    /\ tasks' = LaunchRefresh([tasks EXCEPT !.started = TRUE, !.cache = "reading"])
    /\ UNCHANGED <<haContext, contextReady, cacheFile, blacklistFile, now>>
    /\ UNCHANGED ContextRest

\* The interval timer fires.
RefreshTimer ==
    /\ tasks.started
    /\ tasks.launched < MaxRefreshes
    /\ tasks' = LaunchRefresh(tasks)
    /\ UNCHANGED <<haContext, contextReady, cacheFile, blacklistFile, now>>
    /\ UNCHANGED ContextRest

\* loadHaContextFromCache after fs.readFile: lines 165-203.  Every step that
\* handles a file or a response happens a moment later than the one before.
loadHaContextFromCache ==
    /\ tasks.cache = "reading"
    /\ IF cacheFile.ok
       THEN /\ haContext' = CacheAssign(haContext, cacheFile, blacklistFile, now)
            /\ blacklistFile' = ensureBlacklistExists(blacklistFile, cacheFile.entities)
            /\ IF IndexThrows(NotListed(cacheFile.entities,
                      loadBlacklist(ensureBlacklistExists(blacklistFile,
                                                          cacheFile.entities))))
               THEN /\ contextReady' = contextReady
                    /\ tasks' = [tasks EXCEPT !.cache = "done"]
               ELSE /\ contextReady' = markContextReady
                    /\ tasks' = [tasks EXCEPT
                                   !.cache = "done",
                                   !.resolverCalls = ResolverCalls(contextReady, @)]
       ELSE /\ tasks' = [tasks EXCEPT !.cache = "done"]
            /\ UNCHANGED <<haContext, blacklistFile, contextReady>>
    /\ now' = now + 1
    /\ UNCHANGED cacheFile
    /\ UNCHANGED ContextRest

\* refreshHaContext from the HTTP response to the await of
\* persistContextSnapshot, or to the catch: lines 111-148 and 155-160.
RefreshRespond ==
    \E k \in 1..Len(tasks.refreshes), res \in HttpResponses :
        /\ tasks.refreshes[k].pc = "http"
        /\ IF ~res.ok
           THEN /\ tasks' = [tasks EXCEPT !.refreshes = Without(@, k), !.failed = @ + 1]
                /\ UNCHANGED <<haContext, blacklistFile>>
           ELSE /\ haContext' = RefreshAssign(haContext, res.data, blacklistFile, now)
                /\ blacklistFile' = RefreshBlacklistFile(res.data, blacklistFile)
                /\ tasks' =
                     IF RefreshThrows(res.data, blacklistFile)
                     THEN [tasks EXCEPT !.refreshes = Without(@, k), !.failed = @ + 1]
                     ELSE [tasks EXCEPT !.refreshes[k] =
                              [pc |-> "persist",
                               entities |-> RefreshFiltered(res.data, blacklistFile)]]
        /\ now' = now + 1
        /\ UNCHANGED <<contextReady, cacheFile>>
        /\ UNCHANGED ContextRest

\* persistContextSnapshot and the rest of refreshHaContext: lines 255-274
\* and 150-154.  written: did fs.writeFile succeed.
RefreshPersist ==
    \E k \in 1..Len(tasks.refreshes), written \in BOOLEAN :
        /\ tasks.refreshes[k].pc = "persist"
        /\ cacheFile' =
             IF written
             THEN CacheDoc(haContext.lastUpdated, tasks.refreshes[k].entities,
                           [i \in 1..Len(tasks.refreshes[k].entities) |->
                               SearchEntry(tasks.refreshes[k].entities[i])])
             ELSE cacheFile
        /\ contextReady' = markContextReady
        /\ tasks' = [tasks EXCEPT !.refreshes = Without(@, k),
                                  !.resolverCalls = ResolverCalls(contextReady, @)]
        /\ UNCHANGED <<haContext, blacklistFile, now>>
        /\ UNCHANGED ContextRest

\* The blacklist file is the user's to edit: ensureBlacklistExists creates
\* it listing every entity, and the user removes or adds lines between two
\* loads.
EditBlacklist ==
    /\ tasks.started
    /\ blacklistFile.exists
    /\ blacklistFile' \in {NoBlacklist, BlacklistCouch} \ {blacklistFile}
    /\ UNCHANGED <<haContext, contextReady, cacheFile, tasks, now>>
    /\ UNCHANGED ContextRest

NextContext ==
    \/ startHaContextLoop
    \/ EditBlacklist
    \/ RefreshTimer
    \/ loadHaContextFromCache
    \/ RefreshRespond
    \/ RefreshPersist

SpecContext == InitContext /\ [][NextContext]_vars

-----------------------------------------------------------------------------
(* server.js: one text command, from processTextCommand to its reply *)

\* The detectors and handlers of processTextCommand, in the order of its code.
DetectorOrder == <<"stateQuery", "pronoun", "brightness", "direct", "planner">>

EmptyTextHelp == "Send a command like \"turn on kitchen light\" or \"status whiskey\"."
NotConfigured == "Home Assistant connection is not configured."

\* What processTextCommand has done when it reaches its first await or
\* returns: where it waits, what it tried, whose intent it holds.
Progress(pc, tried, source, actions, successMessage, reply) ==
    [pc |-> pc, tried |-> tried, source |-> source, actions |-> actions,
     successMessage |-> successMessage, reply |-> reply]

\* A text handling that asks the direct on/off detector before the
\* brightness detector.
processTextCommandDirectFirst(ctx, aliases, lastId, text, configured, planner) ==
    LET Brightness(intent) ==
            IF ~intent.isNull
            THEN Progress("call", <<"stateQuery", "pronoun", "direct", "brightness">>,
                          "brightness", intent.actions, intent.successMessage, Null)
            ELSE IF planner
            THEN Progress("plan", <<"stateQuery", "pronoun", "direct", "brightness",
                                    "planner">>, "planner", <<>>, "", Null)
            ELSE Progress("reply", <<"stateQuery", "pronoun", "direct", "brightness",
                                     "fallback">>, "fallback", <<>>, "",
                          fallbackSimpleHandler(ctx, aliases, text))
        Direct(intent) ==
            IF ~intent.isNull
            THEN Progress("call", <<"stateQuery", "pronoun", "direct">>, "direct",
                          intent.actions, intent.successMessage, Null)
            ELSE Brightness(detectBrightnessCommand(ctx, aliases, lastId, text))
        Pronoun(action) ==
            IF ~action.isNull
            THEN Progress("call", <<"stateQuery", "pronoun">>, "pronoun",
                          <<[service |-> action.service, entity_id |-> action.entity_id]>>,
                          action.successMessage, Null)
            ELSE Direct(detectDirectAliasCommand(ctx, aliases, text))
        Query(stateQuery) ==
            IF ~stateQuery.isNull
            THEN Progress("fetch", <<"stateQuery">>, "stateQuery",
                          <<[service |-> "get_state", entity_id |-> stateQuery.entity_id]>>,
                          "", Null)
            ELSE Pronoun(detectPronounCommand(ctx, lastId, text))
    IN  IF text = "" THEN Progress("reply", <<>>, "none", <<>>, "", EmptyTextHelp)
        ELSE IF ~configured THEN Progress("reply", <<>>, "none", <<>>, "", NotConfigured)
        ELSE IF isDiagnosticCommand(text)
        THEN Progress("diagnostic", <<>>, "none", <<>>, "", Null)
        ELSE Query(detectStateQueryCommand(ctx, aliases, text))

\* processTextCommand({text, sender, ...}) up to its first await or, where
\* it awaits nothing, its return.  lastId is getLastEntityId(sender),
\* configured is HA_BASE_URL && HA_TOKEN, planner is hasPlanner().
processTextCommand(ctx, aliases, lastId, text, configured, planner) ==
    LET Direct(intent) ==
            IF ~intent.isNull
            THEN Progress("call", <<"stateQuery", "pronoun", "brightness", "direct">>,
                          "direct", intent.actions, intent.successMessage, Null)
            ELSE IF planner
            THEN Progress("plan", <<"stateQuery", "pronoun", "brightness", "direct",
                                    "planner">>, "planner", <<>>, "", Null)
            ELSE Progress("reply", <<"stateQuery", "pronoun", "brightness", "direct",
                                     "fallback">>, "fallback", <<>>, "",
                          fallbackSimpleHandler(ctx, aliases, text))
        Brightness(intent) ==
            IF ~intent.isNull
            THEN Progress("call", <<"stateQuery", "pronoun", "brightness">>, "brightness",
                          intent.actions, intent.successMessage, Null)
            ELSE Direct(detectDirectAliasCommand(ctx, aliases, text))
        Pronoun(action) ==
            IF ~action.isNull
            THEN Progress("call", <<"stateQuery", "pronoun">>, "pronoun",
                          <<[service |-> action.service, entity_id |-> action.entity_id]>>,
                          action.successMessage, Null)
            ELSE Brightness(detectBrightnessCommand(ctx, aliases, lastId, text))
        Query(stateQuery) ==
            IF ~stateQuery.isNull
            THEN Progress("fetch", <<"stateQuery">>, "stateQuery",
                          <<[service |-> "get_state", entity_id |-> stateQuery.entity_id]>>,
                          "", Null)
            ELSE Pronoun(detectPronounCommand(ctx, lastId, text))
    IN  IF text = "" THEN Progress("reply", <<>>, "none", <<>>, "", EmptyTextHelp)
        ELSE IF ~configured THEN Progress("reply", <<>>, "none", <<>>, "", NotConfigured)
        ELSE IF isDiagnosticCommand(text)
        THEN Progress("diagnostic", <<>>, "none", <<>>, "", Null)
        ELSE Query(detectStateQueryCommand(ctx, aliases, text))

\* Did the handlers that ran for text call loadAliases?
TextUsesAliases(text, tried) ==
    \/ SeqContains(tried, "stateQuery") /\ StateQueryUsesAliases(text)
    \/ SeqContains(tried, "brightness") /\ BrightnessUsesAliases(text)
    \/ SeqContains(tried, "direct") /\ DirectUsesAliases(text)
    \/ SeqContains(tried, "fallback") /\ FallbackPrefix(ToLowerCase(text)) # ""

\* A memory that records the entity for every user it knows.
updateUserLastEntityOfAnyone(state, user, entityId) ==
    IF ~Truthy(user) \/ ~Truthy(entityId) THEN state
    ELSE [u \in DOMAIN state \cup {user} |-> entityId]

\* memory.js: updateUserLastEntity(user, entityId)
updateUserLastEntity(state, user, entityId) ==
    IF ~Truthy(user) \/ ~Truthy(entityId) THEN state
    ELSE [u \in DOMAIN state \cup {user} |-> IF u = user THEN entityId ELSE state[u]]

\* What a request to Home Assistant comes back with: success, or the
\* message of the error.
HttpOutcomes == {[success |-> TRUE, message |-> ""],
                 [success |-> FALSE, message |-> "Request failed with status code 500"]}

\* callHaService(service, entityId, data) once the request has come back
\* with outcome, or before any request when an argument is missing.
HaServiceResult(action, outcome) ==
    IF ~Truthy(action.service) \/ ~Truthy(action.entity_id)
    THEN [success |-> FALSE, message |-> "Missing service or entity.", sent |-> FALSE]
    ELSE IF DomainOf(action.service) = "" \/ IdSuffix(action.service) = ""
    THEN [success |-> FALSE, message |-> "Invalid service format.", sent |-> FALSE]
    ELSE [success |-> outcome.success, message |-> outcome.message, sent |-> TRUE]

\* The reply after the loop over the actions of a detector:
\* failed ? failed.message || "Command failed." : successMessage || "Done."
LoopReply(results, successMessage) ==
    LET failed == SelectSeq(results, LAMBDA r : ~r.success)
    IN  IF failed # <<>>
        THEN (IF failed[1].message # "" THEN failed[1].message ELSE "Command failed.")
        ELSE IF successMessage # "" THEN successMessage ELSE "Done."

\* planner.js: the actions of a plan and the plans the language model
\* answers with.
PlanAction(type, service, entity_id, hint) ==
    [type |-> type, service |-> service, entity_id |-> entity_id, hint |-> hint]
Plan(actions, final_response) ==
    [throws |-> FALSE, actions |-> actions, final_response |-> final_response]
\* planSmartAction throws: no client, a failed request, an empty or
\* unparsable answer.
PlanThrows == [throws |-> TRUE, actions |-> <<>>, final_response |-> ""]

Plans ==
    {PlanThrows,
     Plan(<<>>, "Which device do you mean?"),
     Plan(<<PlanAction("call_service", "light.turn_on", "light.couch", "")>>,
          "Turning on the couch lamp."),
     Plan(<<PlanAction("get_state", "", "sensor.attic", ""),
            PlanAction("reply_only", "", "", "Nothing changed.")>>, "")}

\* executeServiceAction / executeGetStateAction / the other branches of
\* the loop of executePlan, for one action whose request, if it sends
\* one, comes back with outcome.
PlanActionResult(action, outcome) ==
    IF action.type = "reply_only"
    THEN [success |-> TRUE, sent |-> FALSE,
          message |-> IF action.hint # "" THEN action.hint
                      ELSE "Responded without changes."]
    ELSE IF action.type = "list_from_context"
    THEN [success |-> TRUE, sent |-> FALSE,
          message |-> IF action.hint # "" THEN action.hint
                      ELSE "Listed devices from context."]
    ELSE IF action.type = "call_service"
    THEN IF ~Truthy(action.service) \/ ~Truthy(action.entity_id)
         THEN [success |-> FALSE, sent |-> FALSE, message |-> "Missing service or entity_id."]
         ELSE IF DomainOf(action.service) = "" \/ IdSuffix(action.service) = ""
         THEN [success |-> FALSE, sent |-> FALSE, message |-> "Invalid service format."]
         ELSE [success |-> outcome.success, sent |-> TRUE,
               message |-> IF outcome.success
                           THEN action.service \o " executed for " \o action.entity_id
                           ELSE outcome.message]
    ELSE IF action.type = "get_state"
    THEN IF ~Truthy(action.entity_id)
         THEN [success |-> FALSE, sent |-> FALSE, message |-> "Missing entity_id."]
         ELSE [success |-> outcome.success, sent |-> TRUE,
               message |-> IF outcome.success THEN action.entity_id \o " is on"
                           ELSE outcome.message]
    ELSE [success |-> FALSE, sent |-> FALSE, message |-> "Unsupported action type."]

\* summarizeResults(results); the marks stand for the two emoji.
summarizeResults(results) ==
    Join([i \in 1..Len(results) |->
             (IF results[i].success THEN "(ok) " ELSE "(warn) ") \o results[i].message],
         "\n")

\* [plan.final_response, summary].filter(Boolean).join("\n")
PlanReply(final_response, results) ==
    Join(SelectSeq(<<final_response, summarizeResults(results)>>, NonEmpty), "\n")

\* The Home Assistant request a result stands for, as the request records it.
CallMade(source, action, result) ==
    [source |-> source, service |-> action.service, entity_id |-> action.entity_id,
     success |-> result.success]

\* The messages that arrive: who sends which text.  handleMessage trims
\* the body before it calls processTextCommand.
ServerMessages ==
    {[from |-> "alice", text |-> "status couch"],
     [from |-> "alice", text |-> "what's the state of qqq"],
     [from |-> "bob", text |-> "check movie"],
     [from |-> "alice", text |-> "turn it off"],
     [from |-> "bob", text |-> "Switch that back ON"],
     [from |-> "alice", text |-> "set couch to 40%"],
     [from |-> "alice", text |-> "set couch and plug to 30"],
     [from |-> "bob", text |-> "turn on couch to 40%"],
     [from |-> "alice", text |-> "turn on couch and the wall"],
     [from |-> "bob", text |-> "turn off whiskey"],
     [from |-> "bob", text |-> "turn on movie"],
     [from |-> "bob", text |-> "status"],
     [from |-> "alice", text |-> "hello"],
     [from |-> "alice", text |-> "#context"],
     [from |-> "bob", text |-> ""]}

InitServer ==
    /\ \/ haContext = SnapshotOf(StatesLiving, NowStart) /\ contextReady = TRUE
       \/ haContext = EmptyContext /\ contextReady = FALSE
    /\ cacheFile = NoCacheDoc
    /\ blacklistFile = NoBlacklist
    /\ tasks \in {[NoTasks EXCEPT !.configured = c] : c \in BOOLEAN}
    /\ aliasCache = NoCache
    /\ aliasLastLoaded = 0
    /\ aliasFile \in {AliasDocHome, AliasDocBroken}
    /\ now = NowStart
    /\ userRuntimeState \in LastEntities
    /\ conversationMemory = <<>>
    /\ call = NoCall
    /\ req \in {[NoRequest EXCEPT !.planner = p] : p \in BOOLEAN}

ServerRest == <<haContext, contextReady, cacheFile, blacklistFile, tasks, aliasFile,
                now, conversationMemory, call>>

\* A text arrives and processTextCommand runs up to its first await.
ProcessText ==
    /\ req.pc = "idle"
    /\ \E message \in ServerMessages :
        LET Begin(progress) ==
                /\ req' = [req EXCEPT !.pc = progress.pc, !.text = message.text,
                                      !.sender = message.from,
                                      !.tried = progress.tried,
                                      !.source = progress.source,
                                      !.actions = progress.actions,
                                      !.successMessage = progress.successMessage,
                                      !.reply = progress.reply]
                /\ AliasEffect(TextUsesAliases(message.text, progress.tried))
        IN  Begin(processTextCommand(haContext, Loaded.cache.table,
                                     getLastEntityId(userRuntimeState, message.from),
                                     message.text, tasks.configured, req.planner))
    /\ UNCHANGED userRuntimeState
    /\ UNCHANGED ServerRest

\* The diagnostic command: waitForContextReady() resolves, the snapshot
\* is dumped to the logs.
waitForContextReady ==
    /\ req.pc = "diagnostic"
    /\ contextReady
    /\ req' = [req EXCEPT !.pc = "reply", !.reply = "Context snapshot written to logs."]
    /\ UNCHANGED <<aliasCache, aliasLastLoaded, userRuntimeState>>
    /\ UNCHANGED ServerRest

\* fetchEntityState(stateQuery.entity_id) comes back.
fetchEntityState ==
    /\ req.pc = "fetch"
    /\ \E outcome \in HttpOutcomes :
        /\ req' = [req EXCEPT
                     !.pc = "reply",
                     !.calls = @ \o <<CallMade(req.source, req.actions[1], outcome)>>,
                     !.reply = IF outcome.success
                               THEN req.actions[1].entity_id \o " is on"
                               ELSE IF outcome.message # "" THEN outcome.message
                               ELSE "Failed to get status."]
        /\ userRuntimeState' =
               IF outcome.success
               THEN updateUserLastEntity(userRuntimeState, req.sender,
                                         req.actions[1].entity_id)
               ELSE userRuntimeState
    /\ UNCHANGED <<aliasCache, aliasLastLoaded>>
    /\ UNCHANGED ServerRest

\* callHaService for the next action of the detector's intent comes back;
\* after the last one the reply is chosen.
callHaService ==
    /\ req.pc = "call"
    /\ \E outcome \in HttpOutcomes :
        LET Next1(action, result) ==
                /\ req' = [req EXCEPT
                             !.results = @ \o <<result>>,
                             !.calls = IF result.sent
                                       THEN @ \o <<CallMade(req.source, action, result)>>
                                       ELSE @,
                             !.pc = IF Len(req.results) + 1 = Len(req.actions)
                                    THEN "reply" ELSE "call",
                             !.reply = IF Len(req.results) + 1 = Len(req.actions)
                                       THEN LoopReply(req.results \o <<result>>,
                                                      req.successMessage)
                                       ELSE Null]
                /\ userRuntimeState' =
                       IF result.success
                       THEN updateUserLastEntity(userRuntimeState, req.sender,
                                                 action.entity_id)
                       ELSE userRuntimeState
            Act(action) == Next1(action, HaServiceResult(action, outcome))
        IN  Act(req.actions[Len(req.results) + 1])
    /\ UNCHANGED <<aliasCache, aliasLastLoaded>>
    /\ UNCHANGED ServerRest

\* planSmartAction comes back with a plan, or throws and the simple
\* fallback answers.  A plan without actions is answered at once.
planSmartAction ==
    /\ req.pc = "plan"
    /\ \E plan \in Plans :
        IF plan.throws
        THEN /\ req' = [req EXCEPT !.pc = "reply", !.tried = @ \o <<"fallback">>,
                                   !.reply = fallbackSimpleHandler(
                                                 haContext, Loaded.cache.table, req.text)]
             /\ AliasEffect(FallbackPrefix(ToLowerCase(req.text)) # "")
        ELSE /\ req' = [req EXCEPT
                          !.pc = IF plan.actions = <<>> THEN "reply" ELSE "execute",
                          !.actions = plan.actions,
                          !.final = plan.final_response,
                          !.reply = IF plan.actions = <<>>
                                    THEN PlanReply(plan.final_response, <<>>)
                                    ELSE Null]
             /\ UNCHANGED <<aliasCache, aliasLastLoaded>>
    /\ UNCHANGED userRuntimeState
    /\ UNCHANGED ServerRest

\* executePlan: the next action of the plan is done; after the last one
\* the reply is put together.
executePlan ==
    /\ req.pc = "execute"
    /\ \E outcome \in HttpOutcomes :
        LET Next1(action, result) ==
                /\ req' = [req EXCEPT
                             !.results = @ \o <<result>>,
                             !.calls = IF result.sent
                                       THEN @ \o <<CallMade(req.source, action, result)>>
                                       ELSE @,
                             !.pc = IF Len(req.results) + 1 = Len(req.actions)
                                    THEN "reply" ELSE "execute",
                             !.reply = IF Len(req.results) + 1 = Len(req.actions)
                                       THEN PlanReply(req.final, req.results \o <<result>>)
                                       ELSE Null]
                /\ userRuntimeState' =
                       IF result.success /\ result.sent
                       THEN updateUserLastEntity(userRuntimeState, req.sender,
                                                 action.entity_id)
                       ELSE userRuntimeState
            Act(action) == Next1(action, PlanActionResult(action, outcome))
        IN  Act(req.actions[Len(req.results) + 1])
    /\ UNCHANGED <<aliasCache, aliasLastLoaded>>
    /\ UNCHANGED ServerRest

\* processTextCommand has returned its reply; the next text may arrive.
ReturnReply ==
    /\ req.pc = "reply"
    /\ req' = [NoRequest EXCEPT !.planner = req.planner]
    /\ UNCHANGED <<aliasCache, aliasLastLoaded, userRuntimeState>>
    /\ UNCHANGED ServerRest

NextServer ==
    \/ ProcessText
    \/ waitForContextReady
    \/ fetchEntityState
    \/ callHaService
    \/ planSmartAction
    \/ executePlan
    \/ ReturnReply

SpecServer == InitServer /\ [][NextServer]_vars

-----------------------------------------------------------------------------
(* The diagnostic command while the registry loads *)

DiagnosticText == "#context"

\* The text #context arrives while the cache load and the refreshes are
\* under way: processTextCommand runs up to await waitForContextReady(), or
\* returns at once when Home Assistant is not configured.
ProcessDiagnostic ==
    /\ req.pc = "idle"
    /\ LET Begin(progress) ==
                req' = [req EXCEPT !.pc = progress.pc, !.text = DiagnosticText,
                                   !.sender = "alice",
                                   !.tried = progress.tried,
                                   !.source = progress.source,
                                   !.actions = progress.actions,
                                   !.successMessage = progress.successMessage,
                                   !.reply = progress.reply]
       IN  Begin(processTextCommand(haContext, aliasCache.table,
                                    getLastEntityId(userRuntimeState, "alice"),
                                    DiagnosticText, tasks.configured, req.planner))
    /\ UNCHANGED <<aliasCache, aliasLastLoaded, userRuntimeState>>
    /\ UNCHANGED ServerRest

NextReady ==
    \/ startHaContextLoop
    \/ RefreshTimer
    \/ loadHaContextFromCache
    \/ RefreshRespond
    \/ RefreshPersist
    \/ ProcessDiagnostic
    \/ waitForContextReady
    \/ ReturnReply

SpecReady == InitContext /\ [][NextReady]_vars

-----------------------------------------------------------------------------
(* Properties of the resolver calls *)

\* What Candidate Search returns for the text and options of the call.
CallCandidates ==
    findEntityCandidates(haContext, call.text, LimitUsed(call.options.limit),
                         call.options.preferredDomains)

\* C1: alias precedence.  After selectEntityId(text, opts), if the lowercased,
\* trimmed text is a key of the current alias table, the id returned is the
\* entity id of that alias, for every snapshot and every opts, whatever
\* Candidate Search ranks first.
AliasPrecedence ==
    (call.op = "selectEntityId" /\ NormalizeKey(call.text) \in DOMAIN aliasCache.table)
        => call.id = aliasCache.table[NormalizeKey(call.text)]

\* A call whose text is an alias although Candidate Search ranks another
\* entity first, above the minimum score.
AliasBeatsTopCandidate ==
    /\ call.op = "selectEntityId"
    /\ NormalizeKey(call.text) \in DOMAIN aliasCache.table
    /\ CallCandidates # <<>>
    /\ CallCandidates[1].score >= MinScoreUsed(call.options.minScore)
    /\ CallCandidates[1].entity_id # aliasCache.table[NormalizeKey(call.text)]
    /\ call.id = aliasCache.table[NormalizeKey(call.text)]

\* The minimum score of the options as the description has it: 1 when none
\* is given, the given one otherwise.
MinScoreGiven(options) ==
    IF options.minScore = NoOption THEN ScoreScale ELSE options.minScore

\* C2: when the text has no alias, selectEntityId returns the entity_id of
\* the first candidate of Candidate Search if its score is >= minScore
\* (1 when not given), and null in every other case.
SelectByMinScore ==
    (call.op = "selectEntityId" /\ resolveAlias(aliasCache.table, call.text) = Null)
        => call.id = IF /\ CallCandidates # <<>>
                        /\ CallCandidates[1].score >= MinScoreGiven(call.options)
                     THEN CallCandidates[1].entity_id
                     ELSE Null

\* The direct patterns whose prefix the text of the call starts with.
CallDirectPatterns ==
    {i \in 1..Len(directPatterns) :
        StartsWith(ToLowerCase(Trim(call.text)), directPatterns[i].prefix)}

\* The id a segment of a direct command resolves to.
DirectResolved(segment) ==
    selectEntityId(haContext, aliasCache.table, segment,
                   Options(DIRECT_DOMAINS, 5, NoOption))

\* C3: conjunction atomicity of direct on/off.  When the remainder of a
\* "turn on|off" / "switch on|off" text splits into n segments, the detector
\* returns null or exactly n actions, one per segment in segment order; when
\* a segment does not resolve to an entity of the registry it returns null.
DirectAtomicity ==
    call.op = "detectDirectAliasCommand" =>
        \A i \in CallDirectPatterns :
            LET segments == DirectSegments(call.text, directPatterns[i])
                actions == call.intent.actions
            IN  /\ \/ call.intent.isNull
                   \/ /\ Len(actions) = Len(segments)
                      /\ \A k \in 1..Len(segments) :
                            /\ actions[k].entity_id = DirectResolved(segments[k])
                            /\ actions[k].entity_id \in DOMAIN haContext.entityMap
                /\ (\E k \in 1..Len(segments) :
                        DirectResolved(segments[k]) \notin DOMAIN haContext.entityMap)
                    => call.intent.isNull

\* A direct command of several segments of which one resolves to an entity
\* of the registry and another does not: null is returned.
DirectPartlyResolved ==
    /\ call.op = "detectDirectAliasCommand"
    /\ call.intent.isNull
    /\ \E i \in CallDirectPatterns :
        LET segments == DirectSegments(call.text, directPatterns[i])
        IN  /\ Len(segments) > 1
            /\ \E k \in 1..Len(segments) :
                    DirectResolved(segments[k]) \in DOMAIN haContext.entityMap
            /\ \E k \in 1..Len(segments) :
                    DirectResolved(segments[k]) \notin DOMAIN haContext.entityMap

\* The brightness pattern the detector decides the call on: the first one
\* that matches the text.
CallBrightnessPattern ==
    {i \in BrightnessMatches(call.text) : \A j \in BrightnessMatches(call.text) : i <= j}

\* The targets each segment of a brightness command resolves to.
BrightnessResolved(segments) ==
    [k \in 1..Len(segments) |->
        SegmentTargets(haContext, aliasCache.table,
                       getLastEntityId(userRuntimeState, call.user), segments[k])]

CallBrightnessValue(i) ==
    clampPercent(ParseInt(BrightnessMatch(i, Trim(ToLowerCase(call.text))).digits))

\* C4: brightness atomicity on the non-group path.  When the target phrase
\* splits into more than one segment and fewer brightness-capable targets
\* than segments were resolved, the detector returns null; when every segment
\* resolves to a distinct brightness-capable light, it returns one
\* light.turn_on action per segment, in order, all with the same
\* brightness_pct.
BrightnessAtomicity ==
    call.op = "detectBrightnessCommand" =>
        \A i \in CallBrightnessPattern :
            LET rawTarget == BrightnessTarget(call.text, i)
                segments == splitConjunctionTargets(rawTarget)
                resolved == BrightnessResolved(segments)
                actions == call.intent.actions
            IN  ~SeqContains(tokenizeForMatch(rawTarget), "all") =>
                /\ (Len(segments) > 1 /\ \E k \in 1..Len(segments) : resolved[k] = <<>>)
                    => call.intent.isNull
                /\ ( /\ Len(segments) >= 1
                     /\ \A k \in 1..Len(segments) : resolved[k] # <<>>
                     /\ \A k, l \in 1..Len(segments) :
                            k # l => resolved[k][1].entity_id # resolved[l][1].entity_id )
                    => /\ ~call.intent.isNull
                       /\ Len(actions) = Len(segments)
                       /\ \A k \in 1..Len(segments) :
                            /\ actions[k].service = "light.turn_on"
                            /\ actions[k].entity_id = resolved[k][1].entity_id
                            /\ actions[k].data.brightness_pct = CallBrightnessValue(i)

\* A brightness command of several segments of which one resolves to a
\* brightness-capable target and another does not: null is returned.
BrightnessPartlyResolved ==
    /\ call.op = "detectBrightnessCommand"
    /\ call.intent.isNull
    /\ \E i \in CallBrightnessPattern :
        LET rawTarget == BrightnessTarget(call.text, i)
            segments == splitConjunctionTargets(rawTarget)
            resolved == BrightnessResolved(segments)
        IN  /\ ~SeqContains(tokenizeForMatch(rawTarget), "all")
            /\ Len(segments) > 1
            /\ \E k \in 1..Len(segments) : resolved[k] # <<>>
            /\ \E k \in 1..Len(segments) : resolved[k] = <<>>

\* The brightness-capable lights of the registry whose normalized text or
\* entity_id contains every filter token.
GroupExpected(filterTokens) ==
    {haContext.entities[n].entity_id : n \in
        {n \in 1..Len(haContext.entities) :
            /\ IsDimmableLight(haContext.entities[n])
            /\ \A t \in 1..Len(filterTokens) :
                \/ Includes(NormalizedOrEmpty(haContext.entities[n]), filterTokens[t])
                \/ Includes(ToLowerCase(haContext.entities[n].entity_id),
                            filterTokens[t])}}

\* C10: brightness group mode.  When the target tokens include "all", the
\* detector returns one action for every entity of the registry that has
\* domain light, supports brightness, and whose normalized text or entity_id
\* contains every remaining filter token, and for no other entity.  Stated
\* for the texts that a single brightness pattern matches.
GroupModeComplete ==
    call.op = "detectBrightnessCommand" =>
        \A i \in CallBrightnessPattern :
            LET rawTokens == tokenizeForMatch(BrightnessTarget(call.text, i))
                expected == GroupExpected(SelectSeq(rawTokens, NotFiller))
                actions == call.intent.actions
            IN  (BrightnessMatches(call.text) = {i} /\ SeqContains(rawTokens, "all"))
                => /\ {actions[k].entity_id : k \in 1..Len(actions)} = expected
                   /\ Len(actions) = Cardinality(expected)

-----------------------------------------------------------------------------
(* Properties of Candidate Search *)

\* The score of every entity of the search index for the query of the call.
CallScores ==
    [i \in 1..Len(haContext.searchIndex) |->
        scoreEntity(haContext.searchIndex[i], QueryTokens(call.text),
                    call.options.preferredDomains, haContext.tokenIdf)]

\* The scoring pass of the call kept a candidate.
ScoringPassAnswered ==
    /\ call.text # ""
    /\ QueryTokens(call.text) # <<>>
    /\ \E i \in 1..Len(haContext.searchIndex) : CallScores[i] > 0

\* C13: candidate ranking.  Every candidate the scoring pass of
\* findEntityCandidates returns has a score above 0; the list is in
\* descending order of score and, at equal scores, in ascending order of
\* name; the first candidate has the highest score of the search index.
CandidateRanking ==
    (call.op = "findEntityCandidates" /\ ScoringPassAnswered) =>
        /\ call.candidates # <<>>
        /\ \A i \in 1..Len(call.candidates) : call.candidates[i].score > 0
        /\ \A i \in 1..(Len(call.candidates) - 1) :
               \/ call.candidates[i].score > call.candidates[i + 1].score
               \/ /\ call.candidates[i].score = call.candidates[i + 1].score
                  /\ ~LocaleLess(call.candidates[i + 1].name, call.candidates[i].name)
        /\ \A i \in 1..Len(haContext.searchIndex) :
               call.candidates[1].score >= CallScores[i]

\* Two candidates of equal score came back in the order of their names, the
\* first of them from behind the other in the search index.
CandidatesTiedByName ==
    /\ call.op = "findEntityCandidates"
    /\ Len(call.candidates) >= 2
    /\ call.candidates[1].score = call.candidates[2].score
    /\ call.candidates[1].entity_id = "light.kitchen_hood"
    /\ call.candidates[2].entity_id = "light.kitchen_main"

\* C14: candidate list shape.  For every query, snapshot and limit, the list
\* findEntityCandidates returns holds no two candidates of the same
\* entity_id and at most limit candidates.
CandidateListShape ==
    call.op = "findEntityCandidates" =>
        /\ \A i, j \in 1..Len(call.candidates) :
               call.candidates[i].entity_id = call.candidates[j].entity_id => i = j
        /\ Len(call.candidates) <= call.options.limit

\* The places of the search index whose entity_id contains the token.
ContainingPlaces(token) ==
    {i \in 1..Len(haContext.searchIndex) :
        Includes(haContext.searchIndex[i].entity_id, token)}

FallbackOnlyIds ==
    IF ScoringPassAnswered THEN {}
    ELSE {CallCandidates[i].entity_id : i \in 1..Len(CallCandidates)}

\* An explicit minScore that is positive and at most 0.5.
PositiveAtMostHalf(minScore) == minScore > 0 /\ 2 * minScore <= ScoreScale

\* An explicit minScore that is not zero and at most 0.5.
NonZeroAtMostHalf(minScore) ==
    minScore # NoOption /\ minScore # 0 /\ 2 * minScore <= ScoreScale

\* C27 as stated: selectEntityId called without an explicit positive
\* minScore below or equal to 0.5 never returns an entity that Candidate
\* Search found only through the single-token substring fallback.
FallbackNeverSelectedByDefault ==
    (call.op = "selectEntityId" /\ ~PositiveAtMostHalf(call.options.minScore))
        => call.id \notin FallbackOnlyIds

\* C27: selectEntityId called on a text without an alias and without an
\* explicit non-zero minScore below or equal to 0.5 never returns an entity
\* that Candidate Search found only through the single-token substring
\* fallback.
FallbackSelectedOnlyBelowHalf ==
    (/\ call.op = "selectEntityId"
     /\ resolveAlias(aliasCache.table, call.text) = Null
     /\ ~NonZeroAtMostHalf(call.options.minScore))
        => call.id \notin FallbackOnlyIds

\* The text "plu" has no alias and reaches switch.couch_plug through the
\* fallback only: without a minScore, with minScore 0 and with minScore 0.75
\* selectEntityId returned null.
FallbackCandidateRefused ==
    /\ call.op = "selectEntityId"
    /\ call.text = "plu"
    /\ resolveAlias(aliasCache.table, call.text) = Null
    /\ 4 * call.options.minScore = 3 * ScoreScale
    /\ "switch.couch_plug" \in FallbackOnlyIds
    /\ call.id = Null

-----------------------------------------------------------------------------
(* Properties of the pronoun command *)

\* The texts of the pronoun pattern, by their last word.
PronounOnTexts == {"turn it on", "switch this back on"}
PronounOffTexts == {"Switch them back OFF", " turn that off "}

\* C16: pronoun command.  For a text of the pattern
\* 'turn|switch it|them|this|that [back] on|off', detectPronounCommand(text,
\* user) returns the service '<domain>.turn_on' or '<domain>.turn_off' on
\* exactly the last entity of that user when the snapshot holds it, and null
\* when the user has no last entity or the snapshot does not hold it; the
\* last entity of another user has no part in the result.
PronounCommand ==
    (call.op = "detectPronounCommand"
        /\ call.text \in PronounOnTexts \cup PronounOffTexts) =>
        IF /\ call.user \in DOMAIN userRuntimeState
           /\ userRuntimeState[call.user] \in DOMAIN haContext.entityMap
        THEN /\ ~call.pronoun.isNull
             /\ call.pronoun.entity_id = userRuntimeState[call.user]
             /\ call.pronoun.service =
                    haContext.entityMap[userRuntimeState[call.user]].domain
                        \o (IF call.text \in PronounOnTexts THEN ".turn_on"
                            ELSE ".turn_off")
        ELSE call.pronoun.isNull

\* Both users have a last entity in the snapshot; the second user's pronoun
\* command came back for the second user's entity.
PronounOfSecondUser ==
    /\ call.op = "detectPronounCommand"
    /\ call.user = "bob"
    /\ call.text = "Switch them back OFF"
    /\ DOMAIN userRuntimeState = Users
    /\ userRuntimeState["alice"] \in DOMAIN haContext.entityMap
    /\ userRuntimeState["alice"] # userRuntimeState["bob"]
    /\ call.pronoun.entity_id = "switch.couch_plug"
    /\ call.pronoun.service = "switch.turn_off"

-----------------------------------------------------------------------------
(* Properties of the state the detectors leave behind *)

DetectorOps == {"detectStateQueryCommand", "detectPronounCommand",
                "detectBrightnessCommand", "detectDirectAliasCommand"}

DetectorCall == call.op = "none" /\ call'.op \in DetectorOps

\* C17 as stated: a detector call writes no state that a later detector call
\* reads (the alias table and the time of its load are what resolveAlias and
\* loadAliases read), and leaves the registry snapshot, the last-entity
\* memory and the conversation history unchanged.
DetectorsRetainNothing ==
    [][DetectorCall =>
          UNCHANGED <<aliasCache, aliasLastLoaded, haContext, userRuntimeState,
                      conversationMemory>>]_vars

\* C17, amended: the only state a detector call writes is the alias table
\* and the time of its load, and only in a call of detectStateQueryCommand,
\* detectBrightnessCommand or detectDirectAliasCommand that resolves a target
\* while the table is not loaded or older than ALIAS_RELOAD_MS;
\* detectPronounCommand writes nothing; every detector call leaves the
\* registry snapshot, the last-entity memory and the conversation history
\* unchanged.
DetectorsRetainAliasesOnly ==
    [][DetectorCall =>
          /\ UNCHANGED <<haContext, contextReady, userRuntimeState, conversationMemory,
                         cacheFile, blacklistFile, aliasFile, now>>
          /\ \/ UNCHANGED <<aliasCache, aliasLastLoaded>>
             \/ /\ call'.op # "detectPronounCommand"
                /\ ~AliasFresh(aliasCache, aliasLastLoaded, now)
                /\ aliasCache'.loaded]_vars

\* A detector call loaded the alias table, which the calls after it read.
DetectorLoadedAliases ==
    /\ call.op \in DetectorOps
    /\ call.read
    /\ call.prior = 0
    /\ aliasLastLoaded = now
    /\ aliasCache.loaded

\* C26: intents only name registry entities.  Every entity_id in an intent
\* returned by detectStateQueryCommand, detectPronounCommand,
\* detectBrightnessCommand or detectDirectAliasCommand is a key of the
\* entityMap of the current snapshot, also when the alias table maps a
\* phrase to an id that is not in the registry.
IntentsNameRegistryEntities ==
    /\ (call.op = "detectStateQueryCommand" /\ ~call.query.isNull)
          => call.query.entity_id \in DOMAIN haContext.entityMap
    /\ (call.op = "detectPronounCommand" /\ ~call.pronoun.isNull)
          => call.pronoun.entity_id \in DOMAIN haContext.entityMap
    /\ call.op \in {"detectBrightnessCommand", "detectDirectAliasCommand"}
          => \A i \in 1..Len(call.intent.actions) :
                 call.intent.actions[i].entity_id \in DOMAIN haContext.entityMap

-----------------------------------------------------------------------------
(* Properties of the planner's snippet *)

SnippetLimitUsed == IF call.options.limit = NoOption THEN 30 ELSE call.options.limit

\* The places of the lines of backfill entities (those without a score) of
\* one domain.
BackfillPlaces(domain) ==
    {i \in 1..Len(call.snippet.lines) :
        call.snippet.lines[i].score = 0 /\ call.snippet.lines[i].domain = domain}

\* The entities that could be listed: those a requested domain groups, and
\* the candidates of the text.
SomethingToList ==
    \/ \E k \in 1..Len(call.domains) :
          /\ call.domains[k] \in DOMAIN haContext.grouped
          /\ haContext.grouped[call.domains[k]] # <<>>
    \/ findEntityCandidates(haContext, call.text, 15, {}) # <<>>

SnippetFilledToLimit ==
    /\ call.op = "buildRelevantEntitiesSnippet"
    /\ call.text = "hall"
    /\ call.options.limit = 50
    /\ Len(call.snippet.lines) = 42
    /\ Cardinality({i \in 1..42 : call.snippet.lines[i].score > 0}) = 15
    /\ Cardinality(BackfillPlaces("light")) = 27

-----------------------------------------------------------------------------
(* Properties of the conversation history *)

\* C22 (1): every history holds at most 20 entries, and they are the most
\* recently appended non-empty ones in the order of their appends: the
\* messages of the user up to the last one, without a gap, from the first
\* message on unless 20 are held.
HistoryBounded ==
    \A user \in DOMAIN conversationMemory :
        LET history == conversationMemory[user]
            last == Appended(conversationMemory, user)
        IN  /\ Len(history) <= 20
            /\ Len(history) = (IF last < 20 THEN last ELSE 20)
            /\ \A i \in 1..Len(history) :
                   /\ history[i].content # ""
                   /\ history[i].content = Message(last - Len(history) + i)

\* C22 (2): an append of empty content changes nothing, and an append for
\* one user changes the history of no other user.
HistoryAppendFrame ==
    [][(call.op = "none" /\ call'.op = "appendConversationHistory") =>
          /\ call'.text = "" => conversationMemory' = conversationMemory
          /\ \A user \in Users \ {call'.user} :
                 getConversationHistory(conversationMemory', user)
                     = getConversationHistory(conversationMemory, user)]_vars

\* C22: conversation history is bounded.
ConversationHistoryBounded == []HistoryBounded /\ HistoryAppendFrame

\* A user has appended 22 messages and the other one 3: the first holds the
\* last 20 of them, from the third on.
HistoryTruncated ==
    /\ DOMAIN conversationMemory = Users
    /\ Len(conversationMemory["alice"]) = 20
    /\ conversationMemory["alice"][1].content = "m03"
    /\ conversationMemory["alice"][20].content = "m22"
    /\ Len(conversationMemory["bob"]) = 3

-----------------------------------------------------------------------------
(* Properties of the tokenizer *)

\* The first place from p on where t stands in s, or 0.
RECURSIVE FirstAt(_, _, _)
FirstAt(s, t, p) ==
    IF p + Len(t) - 1 > Len(s) THEN 0
    ELSE IF SubSeq(s, p, p + Len(t) - 1) = t THEN p
    ELSE FirstAt(s, t, p + 1)

\* The tokens stand in s one after the other, from place p on.
RECURSIVE InOrderFrom(_, _, _)
InOrderFrom(tokens, s, p) ==
    IF tokens = <<>> THEN TRUE
    ELSE LET Next1(at) == at > 0 /\ InOrderFrom(Tail(tokens), s, at + Len(Head(tokens)))
         IN  Next1(FirstAt(s, Head(tokens), p))

\* C20: tokenizer.  Every token tokenizeForMatch returns is a non-empty
\* string of lower-case letters and digits that is three characters long or
\* longer or one of ac, tv, ir, fan, led, pir; the tokens stand in the order
\* of the input; the word 'a' is dropped, 'ac' and 'tv' are kept.
Tokenizer ==
    call.op = "tokenizeForMatch" =>
        /\ \A k \in 1..Len(call.tokens) :
               /\ call.tokens[k] # ""
               /\ \A i \in 1..Len(call.tokens[k]) :
                      Ch(call.tokens[k], i) \in LowerAlnumSet
               /\ \/ Len(call.tokens[k]) >= 3
                  \/ call.tokens[k] \in {"ac", "tv", "ir", "fan", "led", "pir"}
        /\ InOrderFrom(call.tokens, ToLowerCase(call.text), 1)
        /\ call.text = "a" => call.tokens = <<>>
        /\ call.text = "tv" => call.tokens = <<"tv">>
        /\ call.text = "turn on the ac" => call.tokens = <<"turn", "the", "ac">>

\* A text of words of one, two and three characters was tokenized: the
\* listed short words and the long one came back, in their order.
ShortTokensKept ==
    /\ call.op = "tokenizeForMatch"
    /\ call.text = "LED pir x1 ir"
    /\ call.tokens = <<"led", "pir", "ir">>

-----------------------------------------------------------------------------
(* Properties of the score *)

RECURSIVE SumOver(_, _)
SumOver(f, n) == IF n = 0 THEN 0 ELSE f[n] + SumOver(f, n - 1)

\* The score by the table of the eight signals, in units of 1 / ScoreScale.
TableScore(entity, tokens, preferredDomains, tokenIdf) ==
    LET Table(name, id, area, joined) ==
            LET weight == [i \in 1..Len(tokens) |->
                              (IF tokens[i] \in DOMAIN tokenIdf THEN tokenIdf[tokens[i]]
                               ELSE IdfScale) * (ScoreScale \div IdfScale)]
                inName == {i \in 1..Len(tokens) : SeqContains(name, tokens[i])}
                inId   == {i \in 1..Len(tokens) : SeqContains(id, tokens[i])}
                inArea == {i \in 1..Len(tokens) : SeqContains(area, tokens[i])}
                runs   == {n \in 2..Len(tokens) :
                              \E i \in 1..(Len(tokens) - n + 1) :
                                  \A k \in i..(i + n - 1) : k \in inName}
                matched == {k \in 1..Len(name) : SeqContains(tokens, name[k])}
                distinct == Cardinality({name[k] : k \in matched})
            IN    (IF joined = ToLowerCase(entity.name) THEN 100 * ScoreScale ELSE 0)
                + (IF joined = ReplaceUnderscores(IdSuffix(entity.entity_id))
                   THEN 80 * ScoreScale ELSE 0)
                + SumOver([i \in 1..Len(tokens) |->
                              IF i \in inArea THEN 5 * weight[i] ELSE 0], Len(tokens))
                + SumOver([i \in 1..Len(tokens) |->
                              IF i \in inName THEN 3 * weight[i] ELSE 0], Len(tokens))
                + SumOver([i \in 1..Len(tokens) |->
                              IF i \in inId \ inName THEN weight[i] ELSE 0], Len(tokens))
                + (IF runs = {} THEN 0
                   ELSE 2 * ScoreScale * (CHOOSE n \in runs : \A m \in runs : m <= n))
                + (IF entity.domain \in preferredDomains THEN 2 * ScoreScale ELSE 0)
                + (IF Len(name) > 0 /\ distinct > 0
                   THEN (5 * ScoreScale * distinct) \div Len(name) ELSE 0)
    IN  Table(tokenizeForMatch(entity.name), tokenizeForMatch(entity.entity_id),
              tokenizeForMatch(IF Truthy(entity.area) THEN entity.area ELSE ""),
              Join(tokens, " "))

\* C19: score formula.  The score scoreEntity gives an entity for a list of
\* query tokens is the sum of the eight signals of the table (a token of the
\* name is not counted as a token of the id as well, a token without a
\* weight counts 1), and it is never negative.
ScoreFormula ==
    (call.op = "findEntityCandidates" /\ ScoringPassAnswered) =>
        \A k \in 1..Len(call.candidates) :
            /\ call.candidates[k].score >= 0
            /\ call.candidates[k].score =
                   TableScore(call.candidates[k], QueryTokens(call.text),
                              call.options.preferredDomains, haContext.tokenIdf)

-----------------------------------------------------------------------------
(* Properties of the IDF table *)

\* df: for every token of tokenIdf, the number of entities of the search
\* index whose normalized text holds the token.
DocumentFrequency ==
    LET Count(tokenSets) ==
            [token \in DOMAIN haContext.tokenIdf |->
                Cardinality({i \in 1..Len(haContext.searchIndex) :
                                token \in tokenSets[i]})]
    IN  Count([i \in 1..Len(haContext.searchIndex) |->
                  TokenSet(NormalizedOrEmpty(haContext.searchIndex[i]))])

\* C18: IDF table.  In every snapshot every weight of tokenIdf lies in
\* [0.5, 10], and of two tokens the one with the smaller document frequency
\* in the search index has a weight at least as high.
IdfTable ==
    LET Monotone(idf, df) ==
            \A a, b \in DOMAIN idf : df[a] < df[b] => idf[a] >= idf[b]
    IN  /\ \A token \in DOMAIN haContext.tokenIdf :
               /\ 2 * haContext.tokenIdf[token] >= IdfScale
               /\ haContext.tokenIdf[token] <= 10 * IdfScale
        /\ Monotone(haContext.tokenIdf, DocumentFrequency)

-----------------------------------------------------------------------------
(* Properties of the brightness value *)

\* Brightness commands for the light whiskey and the number each one writes.
WrittenValues ==
    {[text |-> "set whiskey to 0", written |-> 0],
     [text |-> "set whiskey to 007%", written |-> 7],
     [text |-> "Set Whiskey to 100 percent", written |-> 100],
     [text |-> "dim whiskey to 101", written |-> 101],
     [text |-> "set whiskey to 150", written |-> 150],
     [text |-> "set whiskey to 999%", written |-> 999]}

\* The phrase "whiskey" of these commands resolves to a brightness-capable
\* light of the snapshot.
WhiskeyIsDimmable ==
    LET Dimmable(entityId) ==
            /\ entityId \in DOMAIN haContext.entityMap
            /\ haContext.entityMap[entityId].domain = "light"
            /\ haContext.entityMap[entityId].supportsBrightness
    IN  Dimmable(selectEntityId(haContext, aliasCache.table, "whiskey",
                                Options({"light"}, 5, NoOption)))

CallPercents ==
    [i \in 1..Len(call.intent.actions) |-> call.intent.actions[i].data.brightness_pct]

NegativeBrightnessClampsToZero ==
    (call.op = "detectBrightnessCommand" /\ call.text = "set whiskey to -5%"
     /\ WhiskeyIsDimmable) =>
        /\ ~call.intent.isNull
        /\ \A i \in 1..Len(call.intent.actions) : CallPercents[i] = 0

\* The snapshot holds the entity id as one that supports brightness: in the
\* entityMap, which getEntityById reads, or in the searchIndex, which
\* Candidate Search reads.
HeldAsDimmable(id) ==
    \/ /\ id \in DOMAIN haContext.entityMap
       /\ haContext.entityMap[id].supportsBrightness = TRUE
    \/ \E k \in 1..Len(haContext.searchIndex) :
           /\ haContext.searchIndex[k].entity_id = id
           /\ haContext.searchIndex[k].supportsBrightness = TRUE

\* C28: brightness actions are well-formed.  In every non-null result of
\* detectBrightnessCommand the action list is non-empty, every action has
\* the service light.turn_on and targets an entity whose supportsBrightness
\* is true, no two actions target the same entity_id, and
\* all actions carry the same brightness_pct.
BrightnessActionsWellFormed ==
    (call.op = "detectBrightnessCommand" /\ ~call.intent.isNull) =>
        LET actions == call.intent.actions
        IN  /\ actions # <<>>
            /\ \A i \in 1..Len(actions) :
                   /\ actions[i].service = "light.turn_on"
                   /\ HeldAsDimmable(actions[i].entity_id)
                   /\ actions[i].data.brightness_pct = actions[1].data.brightness_pct
            /\ \A i, j \in 1..Len(actions) :
                   actions[i].entity_id = actions[j].entity_id => i = j

\* A command that names the couch lamp twice was answered with one action.
BrightnessTargetsDeduped ==
    /\ call.op = "detectBrightnessCommand"
    /\ call.text = "set couch and couch to 30"
    /\ ~call.intent.isNull
    /\ Len(call.intent.actions) = 1
    /\ call.intent.actions[1].entity_id = "light.couch"
    /\ call.intent.actions[1].data.brightness_pct = 30

-----------------------------------------------------------------------------
(* Properties of the alias table *)

\* A step in which selectEntityId reads the alias table.
AliasReadStep ==
    call.op = "none" /\ call'.op = "selectEntityId" /\ NormalizeKey(call'.text) # ""

\* What selectEntityId returns for the call when the alias table is table.
ResolvedWith(table, c) ==
    IF NormalizeKey(c.text) \in DOMAIN table THEN table[NormalizeKey(c.text)]
    ELSE IF /\ findEntityCandidates(haContext, c.text, 5, {}) # <<>>
            /\ findEntityCandidates(haContext, c.text, 5, {})[1].score >= ScoreScale
    THEN findEntityCandidates(haContext, c.text, 5, {})[1].entity_id
    ELSE Null

\* C7: a failure to read or parse the alias document is not an error.  The
\* call that meets it keeps the last successfully loaded table unchanged, or
\* an empty table when no load has succeeded, and selectEntityId resolves
\* the text over that table as usual.
AliasFailureKeepsTable ==
    [][(AliasReadStep /\ call'.read /\ ~aliasFile.ok) =>
          /\ aliasCache'.loaded
          /\ aliasCache'.table = (IF aliasCache.loaded THEN aliasCache.table ELSE <<>>)
          /\ aliasLastLoaded' = aliasLastLoaded
          /\ call'.id # Thrown
          /\ call'.id = ResolvedWith(aliasCache'.table, call')]_vars

\* A reload failed after an earlier load had succeeded: the table of the
\* earlier load still resolves the text.
AliasFailureAfterSuccess ==
    /\ call.op = "selectEntityId"
    /\ call.read
    /\ ~aliasFile.ok
    /\ call.prior # 0
    /\ NormalizeKey(call.text) \in DOMAIN aliasCache.table
    /\ call.id = aliasCache.table[NormalizeKey(call.text)]

\* C8: the alias cache and its time to live of 60 s.  The document is read
\* on first use; a read less than 60 s after the last successful load serves
\* the cached table and does not touch the document; a read 60 s or more
\* after it reads the document again, and when that succeeds the table is
\* the content of the document and nothing else.
AliasTimeToLive ==
    [][AliasReadStep =>
          /\ ~aliasCache.loaded => call'.read
          /\ (aliasLastLoaded # 0 /\ now - aliasLastLoaded < 60 * 1000)
                => /\ ~call'.read
                   /\ aliasCache' = aliasCache
                   /\ aliasLastLoaded' = aliasLastLoaded
          /\ (aliasLastLoaded # 0 /\ now - aliasLastLoaded >= 60 * 1000)
                => /\ call'.read
                   /\ aliasFile.ok =>
                        /\ aliasCache'.table = AliasMapOf(aliasFile.entries)
                        /\ aliasLastLoaded' = now]_vars

\* A read 60 s or more after the last successful load replaced the table
\* by the content of the document.
AliasReloadedAfterExpiry ==
    /\ call.op = "selectEntityId"
    /\ call.read
    /\ call.prior # 0
    /\ now - call.prior >= 60 * 1000
    /\ aliasLastLoaded = now
    /\ aliasCache.table = AliasMapOf(AliasDocSwapped.entries)

-----------------------------------------------------------------------------
(* Properties of the registry snapshot *)

\* C6: snapshot consistency.  In every state a resolver call can observe,
\* after any cache loads and live refreshes, successful or failing, the key
\* set of entityMap is the set of entity_ids of entities and of searchIndex,
\* and tokenIdf is the IDF table of that searchIndex.
SnapshotConsistent ==
    /\ DOMAIN haContext.entityMap = IdsOf(haContext.entities)
    /\ DOMAIN haContext.entityMap = IdsOf(haContext.searchIndex)
    /\ haContext.tokenIdf = buildTokenIdf(haContext.searchIndex)

\* C9: a failed refresh leaves the snapshot untouched.  Whenever a call of
\* refreshHaContext fails (missing configuration, HTTP error, an exception
\* while mapping, filtering or indexing), every field of the snapshot is
\* what it was before.
FailedRefreshKeepsSnapshot ==
    [][tasks'.failed > tasks.failed => haContext' = haContext]_vars

\* C23: snapshot freshness under interleaving.  In every interleaving of the
\* completions of the cache load and of the live refreshes, no step replaces
\* the snapshot by older data: haContext.lastUpdated never decreases.
LastUpdatedNeverDecreases ==
    [][haContext'.lastUpdated >= haContext.lastUpdated]_vars

\* The entity ids the five structures of the snapshot ctx hold.
HeldIds(ctx) ==
    IdsOf(ctx.entities) \cup IdsOf(ctx.searchIndex) \cup DOMAIN ctx.entityMap
        \cup UNION {IdsOf(ctx.grouped[d]) : d \in DOMAIN ctx.grouped}
        \cup UNION {IdsOf(ctx.areaIndex[a]) : a \in DOMAIN ctx.areaIndex}

\* C29: blacklist exclusion.  After any cache load or live refresh no entity
\* whose entity_id is listed in the blacklist file read during that load
\* appears in entities, grouped, searchIndex, entityMap or areaIndex.
BlacklistExclusion ==
    [][haContext' # haContext =>
          HeldIds(haContext') \cap loadBlacklist(blacklistFile') = {}]_vars

-----------------------------------------------------------------------------
(* Properties of context readiness *)

\* The calls of refreshHaContext that have published and are persisting.
PersistCount(t) ==
    Cardinality({k \in 1..Len(t.refreshes) : t.refreshes[k].pc = "persist"})

\* The snapshot is a complete one: published by a load, with the three
\* indexes rebuilt from its entities and search index.
CompleteSnapshot(ctx) ==
    /\ ctx.lastUpdated # NoDate
    /\ ~IndexThrows(ctx.entities)
    /\ ctx.entityMap = entityMapOf(ctx.entities)
    /\ ctx.areaIndex = areaIndexOf(ctx.entities)
    /\ ctx.tokenIdf = buildTokenIdf(ctx.searchIndex)

DumpReply == "Context snapshot written to logs."

\* C30: context readiness.  The promise of waitForContextReady is resolved
\* at most once and stays resolved; it is resolved only by a cache load that
\* has just published a complete snapshot or by a refresh that published one
\* before it persisted it; a load that fails resolves nothing; and the
\* diagnostic command #context waits for the promise: it dumps the snapshot
\* only when the promise is resolved and a load has published.
ContextReadiness ==
    [][/\ tasks'.resolverCalls <= 1
       /\ contextReady => contextReady'
       /\ PersistCount(tasks') > PersistCount(tasks) => CompleteSnapshot(haContext')
       /\ (~contextReady /\ contextReady') =>
             /\ tasks'.resolverCalls = tasks.resolverCalls + 1
             /\ \/ /\ tasks.cache = "reading"
                   /\ tasks'.cache = "done"
                   /\ CompleteSnapshot(haContext')
                \/ PersistCount(tasks') < PersistCount(tasks)
       /\ tasks'.failed > tasks.failed => contextReady' = contextReady
       /\ (req.pc = "diagnostic" /\ req'.pc # "diagnostic") =>
             /\ contextReady
             /\ haContext.lastUpdated # NoDate
             /\ req'.reply = DumpReply
       /\ req'.reply = DumpReply => contextReady'
      ]_vars

\* Two refreshes have both published and persisted, the resolver was called
\* once, and the diagnostic command has been answered.
ContextResolvedOnce ==
    /\ tasks.launched = 2
    /\ tasks.failed = 0
    /\ tasks.refreshes = <<>>
    /\ contextReady
    /\ tasks.resolverCalls = 1
    /\ req.pc = "reply"
    /\ req.reply = DumpReply

-----------------------------------------------------------------------------
(* Properties of a text command *)

\* Does the handler called name answer the text of sender with an intent?
\* The planner, when there is one, is handed every text the detectors
\* left unanswered.
Answers(name, text, sender) ==
    IF name = "stateQuery"
    THEN ~detectStateQueryCommand(haContext, Loaded.cache.table, text).isNull
    ELSE IF name = "pronoun"
    THEN ~detectPronounCommand(haContext, getLastEntityId(userRuntimeState, sender),
                               text).isNull
    ELSE IF name = "brightness"
    THEN ~detectBrightnessCommand(haContext, Loaded.cache.table,
                                  getLastEntityId(userRuntimeState, sender), text).isNull
    ELSE IF name = "direct"
    THEN ~detectDirectAliasCommand(haContext, Loaded.cache.table, text).isNull
    ELSE req.planner

\* The place in DetectorOrder of the first handler that answers, from
\* place i on; Len(DetectorOrder) + 1 when none does.
RECURSIVE FirstAnswerFrom(_, _, _)
FirstAnswerFrom(text, sender, i) ==
    IF i > Len(DetectorOrder) THEN i
    ELSE IF Answers(DetectorOrder[i], text, sender) THEN i
    ELSE FirstAnswerFrom(text, sender, i + 1)

ActionIds(actions) == [i \in 1..Len(actions) |-> actions[i].entity_id]

\* The entity ids of the intent the n-th detector returns.
IntentIds(n, text, sender) ==
    IF n = 1
    THEN <<detectStateQueryCommand(haContext, Loaded.cache.table, text).entity_id>>
    ELSE IF n = 2
    THEN <<detectPronounCommand(haContext, getLastEntityId(userRuntimeState, sender),
                                text).entity_id>>
    ELSE IF n = 3
    THEN ActionIds(detectBrightnessCommand(haContext, Loaded.cache.table,
                                           getLastEntityId(userRuntimeState, sender),
                                           text).actions)
    ELSE ActionIds(detectDirectAliasCommand(haContext, Loaded.cache.table, text).actions)

\* The text gets past the checks that come before the detectors.
ReachesDetectors(text) == text # "" /\ tasks.configured /\ ~isDiagnosticCommand(text)

\* C5: detector precedence.  When a text arrives, the handlers that run
\* are state-query, pronoun, brightness, direct on/off and the planner, in
\* this order and up to the first one that answers with an intent (the
\* simple fallback instead of the planner when there is no planner); the
\* intent the request holds is the intent of that first one.  Afterwards
\* every Home Assistant request of the message comes from that intent, no
\* further detector runs, and the simple fallback runs only after the
\* planner has thrown.
DetectorPrecedence ==
    [][/\ (req.pc = "idle" /\ req'.pc # "idle") =>
            LET Expect(n) ==
                    /\ req'.tried = IF n <= Len(DetectorOrder)
                                    THEN SubSeq(DetectorOrder, 1, n)
                                    ELSE SubSeq(DetectorOrder, 1, 4) \o <<"fallback">>
                    /\ req'.source = IF n <= Len(DetectorOrder)
                                     THEN DetectorOrder[n] ELSE "fallback"
                    /\ n <= 4 => ActionIds(req'.actions)
                                     = IntentIds(n, req'.text, req'.sender)
                    /\ req'.calls = <<>>
            IN  IF ReachesDetectors(req'.text)
                THEN Expect(FirstAnswerFrom(req'.text, req'.sender, 1))
                ELSE req'.tried = <<>> /\ req'.source = "none" /\ req'.calls = <<>>
       /\ (req.pc # "idle" /\ req'.pc # "idle") =>
            /\ \/ req'.tried = req.tried
               \/ /\ req.source = "planner"
                  /\ req.calls = <<>>
                  /\ req'.tried = req.tried \o <<"fallback">>
            /\ req.source \in {"stateQuery", "pronoun", "brightness", "direct"} =>
                   req'.actions = req.actions
            /\ \/ req'.calls = req.calls
               \/ /\ Len(req'.calls) = Len(req.calls) + 1
                  /\ SubSeq(req'.calls, 1, Len(req.calls)) = req.calls
                  /\ req'.calls[Len(req'.calls)].source = req.source
                  /\ \E i \in 1..Len(req'.actions) :
                         req'.actions[i].entity_id
                             = req'.calls[Len(req'.calls)].entity_id
      ]_vars

\* A text that both the brightness detector and the direct on/off detector
\* answer has been answered by the brightness detector's intent, with a
\* request sent to Home Assistant.
BrightnessAnsweredBeforeDirect ==
    /\ req.pc = "reply"
    /\ req.source = "brightness"
    /\ req.tried = <<"stateQuery", "pronoun", "brightness">>
    /\ req.calls # <<>>
    /\ ~detectDirectAliasCommand(haContext, aliasCache.table, req.text).isNull

EndsWith(s, t) == Len(s) >= Len(t) /\ HasAt(s, t, Len(s) - Len(t) + 1)

\* The reply states that a device was turned on, turned off or set to a
\* brightness.
StatesSuccess(reply) ==
    /\ reply # Null
    /\ \/ EndsWith(reply, " turned on.")
       \/ EndsWith(reply, " turned off.")
       \/ Includes(reply, " set to ") /\ EndsWith(reply, "%")

\* C24: no success reply without a successful call.  Whenever
\* processTextCommand returns a reply stating that a device was turned on,
\* turned off or set to a brightness, a Home Assistant service call for
\* that entity completed successfully earlier in the same request, on every
\* path, the simple fallback handler included.
NoSuccessReplyWithoutCall ==
    (req.pc = "reply" /\ StatesSuccess(req.reply)) =>
        \E i \in 1..Len(req.calls) :
            /\ req.calls[i].success
            /\ req.calls[i].service # "get_state"
            /\ Includes(req.reply, NameOf(haContext, req.calls[i].entity_id))

\* The successful requests to Home Assistant of the message, in their order.
SucceededCalls(r) == SelectSeq(r.calls, LAMBDA c : c.success)

\* C25: the last-entity memory records only successes.  A user's last
\* entity becomes E only in a step in which a service call or state fetch
\* for E of a request of that same user comes back with success; a failed
\* call, an unresolved command or a detector run changes no user's entry;
\* and when a command of several actions has been answered, the sender's
\* entry is the entity of the last action that succeeded.
LastEntityRecordsSuccess ==
    [][/\ \A u \in Users :
            getLastEntityId(userRuntimeState', u) # getLastEntityId(userRuntimeState, u)
                => /\ u = req.sender
                   /\ Len(req'.calls) = Len(req.calls) + 1
                   /\ req'.calls[Len(req'.calls)].success
                   /\ req'.calls[Len(req'.calls)].entity_id
                          = getLastEntityId(userRuntimeState', u)
       /\ (req'.pc = "reply" /\ SucceededCalls(req') # <<>>)
            => getLastEntityId(userRuntimeState', req'.sender)
                   = SucceededCalls(req')[Len(SucceededCalls(req'))].entity_id
      ]_vars

\* A command of two actions whose first call succeeded and whose second
\* failed, sent while another user had an entry: the sender's entry is the
\* entity of the first action, the other user's entry is as it was.
LastEntityOfPartialSuccess ==
    /\ req.pc = "reply"
    /\ req.sender = "alice"
    /\ Len(req.calls) = 2
    /\ req.calls[1].success
    /\ ~req.calls[2].success
    /\ req.calls[1].entity_id # req.calls[2].entity_id
    /\ DOMAIN userRuntimeState = Users
    /\ userRuntimeState["alice"] = req.calls[1].entity_id
    /\ userRuntimeState["bob"] # req.calls[1].entity_id

=============================================================================
